---- MODULE Spec2Model ----
(***************************************************************************)
(* Model of the x402 payment tools of the MCP server:                      *)
(*   tezos_fetch_x402  (mcp-server/src/tools/fetch_x402.ts)                *)
(*   tezos_pay_x402    (mcp-server/src/tools/pay_x402.ts)                  *)
(* One behaviour is one tool call.  The resource server, the clock and the *)
(* ledger client (Taquito) are the environment: their answers are chosen   *)
(* nondeterministically at the step where the handler awaits them.         *)
(*                                                                         *)
(* Strings the code inspects (network, asset, maxAmountRequired, payTo)    *)
(* are sequences of one-character strings, so that toLowerCase, includes,  *)
(* toUpperCase, parseInt and the address regular expression are computed   *)
(* character by character.  An absent (undefined) string is Undef; an      *)
(* absent number is the empty tuple and a present one a 1-tuple.           *)
(***************************************************************************)
EXTENDS Integers, Sequences, FiniteSets, TLC

---------------------------------------------------------------------------
(* Program constants *)

MUTEZ_PER_TEZ == 1000000

CONFIRMATIONS_TO_WAIT == 3

FEE_RESERVE == 100000

---------------------------------------------------------------------------
(* Bounds of the model *)

\* Blocks the chain may bake on top of a submitted operation while the
\* handler waits for its confirmation.
MaxBlocks == 3

\* Longest "accepts" list a 402 body carries.
MaxAccepts == 2

\* Handlers running concurrently on the wallet
NumCalls == 2

---------------------------------------------------------------------------
(* Strings *)

Undef == <<"undefined">>

UpperAlpha ==
  <<"A","B","C","D","E","F","G","H","I","J","K","L","M",
    "N","O","P","Q","R","S","T","U","V","W","X","Y","Z">>

LowerAlpha ==
  <<"a","b","c","d","e","f","g","h","i","j","k","l","m",
    "n","o","p","q","r","s","t","u","v","w","x","y","z">>

DigitChars == <<"0","1","2","3","4","5","6","7","8","9">>

IndexIn(c, alphabet) == CHOOSE i \in 1..Len(alphabet) : alphabet[i] = c

UpperSet == { UpperAlpha[i] : i \in 1..Len(UpperAlpha) }
LowerSet == { LowerAlpha[i] : i \in 1..Len(LowerAlpha) }
DigitSet == { DigitChars[i] : i \in 1..Len(DigitChars) }

ToLowerMap == [c \in UpperSet |-> LowerAlpha[IndexIn(c, UpperAlpha)]]
ToUpperMap == [c \in LowerSet |-> UpperAlpha[IndexIn(c, LowerAlpha)]]
DigitMap == [c \in DigitSet |-> IndexIn(c, DigitChars) - 1]

IsUpper(c) == c \in UpperSet
IsLower(c) == c \in LowerSet
IsDigit(c) == c \in DigitSet
DigitVal(c) == DigitMap[c]

\* String.prototype.toLowerCase
toLowerCase(s) ==
  [i \in 1..Len(s) |-> IF IsUpper(s[i]) THEN ToLowerMap[s[i]] ELSE s[i]]

\* String.prototype.toUpperCase
toUpperCase(s) ==
  [i \in 1..Len(s) |-> IF IsLower(s[i]) THEN ToUpperMap[s[i]] ELSE s[i]]

\* String.prototype.includes
includes(s, sub) ==
  \E i \in 0..(Len(s) - Len(sub)) : SubSeq(s, i + 1, i + Len(sub)) = sub

\* JavaScript truthiness of an optional string: undefined and "" are falsy.
Truthy(s) == s # Undef /\ s # <<>>

RECURSIVE Repeat(_, _)
Repeat(c, n) == IF n = 0 THEN <<>> ELSE <<c>> \o Repeat(c, n - 1)

\* Not-a-number and numbers, as parseInt returns them.
NaN == [nan |-> TRUE, v |-> 0]
Num(n) == [nan |-> FALSE, v |-> n]

\* IEEE comparisons: every comparison with NaN is false.
NumGt(a, b) == ~a.nan /\ ~b.nan /\ a.v > b.v
NumLt(a, b) == ~a.nan /\ ~b.nan /\ a.v < b.v
NumAdd(a, n) == IF a.nan THEN NaN ELSE Num(a.v + n)

IsSpace(c) == c = " "

RECURSIVE SkipSpaces(_)
SkipSpaces(s) ==
  IF s # <<>> /\ IsSpace(Head(s)) THEN SkipSpaces(Tail(s)) ELSE s

RECURSIVE DigitPrefix(_)
DigitPrefix(s) ==
  IF s # <<>> /\ IsDigit(Head(s)) THEN <<Head(s)>> \o DigitPrefix(Tail(s)) ELSE <<>>

RECURSIVE DigitsValue(_)
DigitsValue(ds) ==
  IF ds = <<>> THEN 0
  ELSE DigitsValue(SubSeq(ds, 1, Len(ds) - 1)) * 10 + DigitVal(ds[Len(ds)])

\* parseInt(s, 10): leading white space, an optional sign, then the longest
\* prefix of decimal digits; NaN when there is no digit.
parseInt(s) ==
  LET t    == SkipSpaces(s)
      neg  == t # <<>> /\ Head(t) = "-"
      sgn  == t # <<>> /\ Head(t) \in {"-", "+"}
      body == IF sgn THEN Tail(t) ELSE t
      ds   == DigitPrefix(body)
  IN  IF s = Undef \/ ds = <<>> THEN NaN
      ELSE Num(IF neg THEN 0 - DigitsValue(ds) ELSE DigitsValue(ds))

\* Number.prototype.toString of an integer, and of NaN.
RECURSIVE NatToString(_)
NatToString(n) ==
  IF n < 10 THEN <<DigitChars[n + 1]>>
  ELSE NatToString(n \div 10) \o <<DigitChars[(n % 10) + 1]>>

numToString(a) ==
  IF a.nan THEN <<"N","a","N">>
  ELSE IF a.v < 0 THEN <<"-">> \o NatToString(0 - a.v)
  ELSE NatToString(a.v)

IsAlnum(c) == IsUpper(c) \/ IsLower(c) \/ IsDigit(c)

AddressPrefixes ==
  { <<"t","z","1">>, <<"t","z","2">>, <<"t","z","3">>, <<"K","T","1">> }

\* Mutant: the prefix alone is tested (the pattern without its tail).
MatchesAddress_PrefixOnly(s) ==
  /\ s # Undef
  /\ Len(s) >= 3
  /\ SubSeq(s, 1, 3) \in AddressPrefixes

\* s.match(/^(tz1|tz2|tz3|KT1)[a-zA-Z0-9]{33}$/)
MatchesAddress(s) ==
  /\ s # Undef
  /\ Len(s) = 36
  /\ SubSeq(s, 1, 3) \in AddressPrefixes
  /\ \A i \in 4..36 : IsAlnum(s[i])

\* An XTZ amount the caller passes is the rational n/d; absent is <<>>.
\* xtzToMutez = Math.floor(xtz * MUTEZ_PER_TEZ)
xtzToMutez(x) == (x.n * MUTEZ_PER_TEZ) \div x.d

One == [n |-> 1, d |-> 1]

---------------------------------------------------------------------------
(* Values the environment and the caller may supply *)

Str_tezos == <<"t","e","z","o","s">>
Str_XTZ == <<"X","T","Z">>
Str_exact == <<"e","x","a","c","t">>

Networks ==
  { Str_tezos \o <<"-","t","e","s","t">>,
    <<"T","e","z","o","s">>,
    <<"e","t","h">>,
    Undef }

\* "100000", "1500000", "abc", "-5"
Amounts ==
  { <<"1","0","0","0","0","0">>,
    <<"1","5","0","0","0","0","0">>,
    <<"a","b","c">>,
    <<"-","5">> }

Assets == { Undef, <<"x","t","z">>, <<"U","S","D","C">> }

Now == 1000

Expiries == { <<>>, <<0>>, <<Now - 1>>, <<Now>> }

Addr_tz1 == <<"t","z","1">> \o Repeat("a", 33)
Addr_KT1 == <<"K","T","1">> \o Repeat("B", 32) \o <<"7">>
Addr_short == <<"t","z","1">> \o Repeat("a", 32)

PayTos == { Addr_tz1, Addr_KT1, Addr_short }

Url == <<"h","t","t","p",":","/","/","s","/","r">>
Str_other == <<"o","t","h","e","r">>

\* scheme and resource, varied together
SchemeResources ==
  { [scheme |-> Str_exact, resource |-> <<>>],
    [scheme |-> Undef,     resource |-> <<"/","r">>],
    [scheme |-> Str_other, resource |-> Url] }

\* X402PaymentRequirements as JSON.parse may deliver it
Requirements ==
  { [scheme |-> sr.scheme, network |-> nw, maxAmountRequired |-> am,
     resource |-> sr.resource, payTo |-> pt, asset |-> as, expiry |-> ex] :
       sr \in SchemeResources, nw \in Networks, am \in Amounts,
       pt \in PayTos, as \in Assets, ex \in Expiries }

Req(nw, am, as, pt) ==
  [scheme |-> Str_exact, network |-> nw, maxAmountRequired |-> am,
   resource |-> <<>>, payTo |-> pt, asset |-> as, expiry |-> <<>>]

\* The options an "accepts" list is drawn from
ListOptions ==
  { Req(<<"e","t","h">>, <<"1","0","0","0","0","0">>, <<"U","S","D","C">>, Addr_tz1),
    Req(<<"T","e","z","o","s">>, <<"1","0","0","0","0","0">>, Str_XTZ, Addr_tz1),
    Req(Str_tezos, <<"1","5","0","0","0","0","0">>, Undef, Addr_KT1),
    Req(Undef, <<"1","0","0","0","0","0">>, Str_XTZ, Addr_KT1) }

RECURSIVE SeqsUpTo(_, _)
SeqsUpTo(S, n) ==
  IF n = 0 THEN { <<>> }
  ELSE LET shorter == SeqsUpTo(S, n - 1)
       IN  shorter \cup { Append(q, x) : q \in shorter, x \in S }

NoHeaders ==
  [xPaymentAddress |-> Undef, xPaymentAmount |-> Undef,
   xPaymentNetwork |-> Undef, xPaymentAsset |-> Undef,
   xPaymentResponse |-> Undef, contentType |-> Undef]

\* Response headers (Headers.get gives null for a header that is not set)
PaymentHeaders ==
  { [NoHeaders EXCEPT !.xPaymentAddress = pt, !.xPaymentAmount = am,
                      !.xPaymentNetwork = nw, !.xPaymentAsset = as] :
       pt \in {Undef, Addr_tz1}, am \in {Undef, <<>>, <<"1","0","0","0","0","0">>},
       nw \in {Undef, <<"e","t","h">>}, as \in {Undef, <<"U","S","D","C">>} }

\* A body is text; what JSON.parse makes of it is json (FALSE: it throws),
\* accepts (<<>>: no such field, or an empty list) and paymentRequirements
\* (<<>>: no such field; <<r>>: the requirement r).
Body(js, acc, single, txt) ==
  [json |-> js, accepts |-> acc, paymentRequirements |-> single, text |-> txt]

FullHeaders ==
  [NoHeaders EXCEPT !.xPaymentAddress = Addr_tz1,
                    !.xPaymentAmount = <<"1","0","0","0","0","0">>]

ListBodies ==
  { Body(TRUE, acc, single, "list") :
      acc \in SeqsUpTo(ListOptions, MaxAccepts) \ { <<>> },
      single \in { <<>>, <<Req(Str_tezos, <<"-","5">>, Undef, Addr_tz1)>> } }

SingleBodies == { Body(TRUE, <<>>, <<r>>, "single") : r \in Requirements }

BareBodies ==
  { Body(TRUE, <<>>, <<>>, "{}"), Body(FALSE, <<>>, <<>>, "Payment Required") }

Responses402 ==
  { [status |-> 402, headers |-> h, body |-> b] :
      h \in {NoHeaders, FullHeaders}, b \in ListBodies }
  \cup { [status |-> 402, headers |-> NoHeaders, body |-> b] : b \in SingleBodies }
  \cup { [status |-> 402, headers |-> FullHeaders,
          body |-> Body(TRUE, <<>>, <<Req(<<"e","t","h">>, <<"a","b","c">>, Undef, Addr_short)>>,
                        "single")] }
  \cup { [status |-> 402, headers |-> h, body |-> b] :
           h \in PaymentHeaders, b \in BareBodies }

PlainBodies == { Body(FALSE, <<>>, <<>>, "<html>"), Body(TRUE, <<>>, <<>>, "{}") }

PlainHeaders ==
  { NoHeaders,
    [NoHeaders EXCEPT !.contentType = <<"j","s","o","n">>,
                      !.xPaymentAddress = Addr_tz1,
                      !.xPaymentAmount = <<"1","0","0","0","0","0">>] }

PlainStatuses == { 200, 404, 500 }

PlainResponses ==
  { [status |-> st, headers |-> h, body |-> b] :
      st \in PlainStatuses, h \in PlainHeaders, b \in PlainBodies }

Responses == Responses402 \cup PlainResponses

\* What the retried request may be answered with
RetryResponses ==
  { [status |-> x[1],
     headers |-> [NoHeaders EXCEPT !.xPaymentResponse = x[2]],
     body |-> Body(TRUE, <<>>, <<>>, "{}")] :
      x \in { <<200, Undef>>, <<200, <<"e","y","J">> >>, <<200, <<"!","!">> >>,
              <<402, Undef>>, <<500, <<"e","y","J">> >> } }

\* Buffer.from(v, "base64").toString() followed by JSON.parse: in the model
\* "eyJ" stands for the base64 of a JSON document and "!!" for a value
\* JSON.parse throws on.
DecodesToJson(v) == v = <<"e","y","J">>

MaxPayments ==
  { <<>>, <<[n |-> 0, d |-> 1]>>, <<[n |-> 1, d |-> 20]>>, <<[n |-> 2, d |-> 1]>> }

WalletAddress == <<"t","z","1">> \o Repeat("w", 33)

\* The proof of an earlier payment, as tezos_pay_x402 returns it
EarlierProof ==
  [scheme |-> Str_exact,
   network |-> Str_tezos,
   payload |->
     [signature |-> <<"o","o","0">>,
      authorization |->
        [from |-> WalletAddress, to |-> Addr_tz1,
         amount |-> <<"1","0","0","0","0","0">>, asset |-> Str_XTZ,
         opHash |-> <<"o","o","0">>]]]

\* Headers a caller may pass: one of its own, one that replaces a default,
\* and an X-PAYMENT header obtained earlier from tezos_pay_x402.
CallerHeaders ==
  [k \in {"Authorization", "Accept", "X-PAYMENT"} |->
     CASE k = "Authorization" -> [text |-> "Bearer k"]
       [] k = "Accept"        -> [text |-> "text/plain"]
       [] k = "X-PAYMENT"     -> [base64 |-> [json |-> EarlierProof]]]

\* The caller's arguments: a plain GET for every limit and autoRetry, and a
\* POST with headers and a body of its own.
FetchParams ==
  { [url |-> Url, method |-> "GET", headers |-> <<>>, body |-> Undef,
     maxPayment |-> mp, autoRetry |-> ar] :
      mp \in MaxPayments, ar \in BOOLEAN }
  \cup { [url |-> Url, method |-> "POST", headers |-> CallerHeaders,
          body |-> <<"q">>, maxPayment |-> <<>>, autoRetry |-> TRUE] }

Balances == { 199999, 200000, 5000000 }

OpHashes == { <<"o","o","1">> }

PayOverrides == { <<>>, <<[n |-> 0, d |-> 1]>>, <<[n |-> 1, d |-> 20]>>, <<[n |-> 2, d |-> 1]>> }

---------------------------------------------------------------------------
(* State *)

VARIABLES
  tool,             \* the tool called: "fetch", "pay", "send", "swap", "fa2",
                    \* "getBalance" or "getTokenBalance"
  pc,               \* where the handler is: the await it is suspended at
  params,           \* the tool call's arguments
  maxPaymentMutez,  \* fetch: the payment limit in mutez
  response,         \* fetch: the responses received: the initial one, then the retry's
  parsedReqs,       \* fetch: what parsePaymentRequirements returned
  paymentReqs,      \* the requirement object the handler works on
  amountMutez,      \* the amount to pay, as parsed
  balance,          \* the balance Tezos.tz.getBalance returned
  operation,        \* the transfer: <<>> or <<[to, amount, hash]>>
  blocks,           \* blocks baked on top of the operation's block
  paymentProof,     \* <<>> or <<the proof object>>
  requests,         \* the HTTP requests issued, in order
  events,           \* the external calls made, in order
  result,           \* what the call returned or threw
  address,          \* query tools: the address the handler asks the chain about
  ledger,           \* concurrent calls: the wallet's balance on the chain
  calls,            \* concurrent calls: each handler's position and locals
  server            \* the server process: init's position, locals and effects

\* The variables of a single call
callVars ==
  <<tool, pc, params, maxPaymentMutez, response, parsedReqs, paymentReqs,
    amountMutez, balance, operation, blocks, paymentProof, requests, events,
    result, address>>

vars == <<callVars, ledger, calls, server>>

NoParams ==
  [url |-> Undef, method |-> "GET", headers |-> <<>>, body |-> Undef,
   maxPayment |-> <<>>, autoRetry |-> TRUE,
   paymentRequirements |-> <<>>, amount |-> <<>>]

NoResult ==
  [kind |-> "none", thrown |-> FALSE, status |-> 0, headers |-> NoHeaders,
   body |-> <<>>, paymentRequirements |-> <<>>, cause |-> "",
   paymentSucceeded |-> FALSE,
   opHash |-> Undef, amountMutez |-> NaN, recipient |-> Undef,
   xPaymentHeader |-> <<>>, xPaymentResponse |-> <<>>,
   success |-> FALSE, message |-> Undef, raw |-> Undef,
   expectedTokens |-> <<>>, address |-> Undef, balance |-> <<>>]

\* The tools init registers, in the order of its registerTool calls
ToolNames ==
  << "tezos_get_balance", "tezos_send_xtz", "tezos_get_token_balance",
     "tezos_swap_xtz_to_token", "tezos_transfer_fa2", "tezos_pay_x402",
     "tezos_fetch_x402" >>

\* The server process before init runs, with its environment: a variable is
\* <<>> when unset, <<value>> when set.
NewServer(env) ==
  [pc |-> "start", env |-> env, networkName |-> <<>>, network |-> <<>>,
   toolkit |-> FALSE, signer |-> FALSE, walletAddress |-> Undef,
   registered |-> <<>>, connected |-> FALSE, fatal |-> <<>>]

\* A server whose init has completed: tool calls are made to it.
StartedServer ==
  [NewServer([TEZOS_NETWORK |-> <<>>, TEZOS_PRIVATE_KEY |-> <<"edsk">>])
     EXCEPT !.pc = "started", !.networkName = <<"shadownet">>,
            !.network = <<[rpcUrl |-> <<"https://rpc.shadownet.teztnets.com">>,
                           tzktUrl |-> <<"https://shadownet.tzkt.io">>]>>,
            !.toolkit = TRUE, !.signer = TRUE, !.walletAddress = WalletAddress,
            !.registered = ToolNames, !.connected = TRUE]

\* JSON.stringify and base64: kept as constructors, so that a header value is
\* the encoding of exactly one object.
JsonStringify(x) == [json |-> x]
Base64(x) == [base64 |-> x]

---------------------------------------------------------------------------
(* fetch_x402.ts: parsePaymentRequirements *)

\* Mutant: the last matching option is taken, not the first.
FindStop_Last(accepts) ==
  LET hits == { i \in 1..Len(accepts) :
                  \/ accepts[i].network = Undef
                  \/ includes(toLowerCase(accepts[i].network), Str_tezos) }
  IN  IF hits = {} THEN 0 ELSE CHOOSE i \in hits : \A j \in hits : i >= j

\* The index accepts.find stops at: the first option whose network is
\* missing (toLowerCase throws there) or contains "tezos"; 0 when none.
FindStop(accepts) ==
  LET hits == { i \in 1..Len(accepts) :
                  \/ accepts[i].network = Undef
                  \/ includes(toLowerCase(accepts[i].network), Str_tezos) }
  IN  IF hits = {} THEN 0 ELSE CHOOSE i \in hits : \A j \in hits : i <= j

HeaderRequirement(headers) ==
  [scheme |-> Str_exact,
   network |-> IF Truthy(headers.xPaymentNetwork)
                 THEN headers.xPaymentNetwork ELSE Str_tezos,
   maxAmountRequired |-> headers.xPaymentAmount,
   resource |-> <<>>,
   payTo |-> headers.xPaymentAddress,
   asset |-> IF Truthy(headers.xPaymentAsset)
               THEN headers.xPaymentAsset ELSE Str_XTZ,
   expiry |-> <<>>]

\* Mutant: the header fallback asks for the address only (payTo || amount
\* in place of payTo && amount).
parsePaymentRequirements_AddressOrAmount(responseBody, responseHeaders) ==
  IF ~responseBody.json THEN <<>>
  ELSE IF Len(responseBody.accepts) > 0
    THEN LET i == FindStop(responseBody.accepts)
         IN  IF i = 0 THEN <<responseBody.accepts[1]>>
             ELSE IF responseBody.accepts[i].network = Undef THEN <<>>
             ELSE <<responseBody.accepts[i]>>
  ELSE IF responseBody.paymentRequirements # <<>>
    THEN responseBody.paymentRequirements
  ELSE IF Truthy(responseHeaders.xPaymentAddress)
          \/ Truthy(responseHeaders.xPaymentAmount)
    THEN <<HeaderRequirement(responseHeaders)>>
  ELSE <<>>

\* <<>> is null
parsePaymentRequirements(responseBody, responseHeaders) ==
  IF ~responseBody.json THEN <<>>
  ELSE IF Len(responseBody.accepts) > 0
    THEN LET i == FindStop(responseBody.accepts)
         IN  IF i = 0 THEN <<responseBody.accepts[1]>>
             ELSE IF responseBody.accepts[i].network = Undef THEN <<>>
             ELSE <<responseBody.accepts[i]>>
  ELSE IF responseBody.paymentRequirements # <<>>
    THEN responseBody.paymentRequirements
  ELSE IF Truthy(responseHeaders.xPaymentAddress)
          /\ Truthy(responseHeaders.xPaymentAmount)
    THEN <<HeaderRequirement(responseHeaders)>>
  ELSE <<>>

---------------------------------------------------------------------------
(* The validation gates *)

\* maxPayment ? xtzToMutez(maxPayment) : xtzToMutez(1)
MaxPaymentMutez(maxPayment) ==
  IF maxPayment # <<>> /\ maxPayment[1].n # 0
    THEN xtzToMutez(maxPayment[1])
    ELSE xtzToMutez(One)

\* network.toLowerCase().includes("tezos")
NetworkSupported(req) == includes(toLowerCase(req.network), Str_tezos)

\* amountMutez > maxPaymentMutez
ExceedsLimit(req, limit) == NumGt(parseInt(req.maxAmountRequired), Num(limit))

\* Mutant: the asset of the requirement is not looked at.
AssetOf_Ignored(req) == Str_XTZ

\* asset?.toUpperCase() || "XTZ"
AssetOf(req) ==
  IF req.asset # Undef /\ toUpperCase(req.asset) # <<>>
    THEN toUpperCase(req.asset)
    ELSE Str_XTZ

\* if (expiry) { now = Math.floor(Date.now() / 1000); if (now > expiry) ... }
ExpiryPassed(req, now) ==
  /\ req.expiry # <<>>
  /\ req.expiry[1] # 0
  /\ now > req.expiry[1]

ValidRecipient(req) == MatchesAddress(req.payTo)

\* !(balance.toNumber() < amountMutez + 100000)
BalanceCovers(bal, amount) == ~NumLt(Num(bal), NumAdd(amount, FEE_RESERVE))

\* Mutant: the asset gate is evaluated before the amount gate.
FetchGate_AssetBeforeLimit(req, limit, now) ==
  IF req.network = Undef THEN "TypeError"
  ELSE IF ~NetworkSupported(req) THEN "UnsupportedNetwork"
  ELSE IF AssetOf(req) # Str_XTZ THEN "UnsupportedAsset"
  ELSE IF ExceedsLimit(req, limit) THEN "PaymentLimitExceeded"
  ELSE IF ExpiryPassed(req, now) THEN "PaymentExpired"
  ELSE IF ~ValidRecipient(req) THEN "InvalidAddress"
  ELSE "ok"

\* The gates of tezos_fetch_x402 between the autoRetry decision and the
\* balance query, in the order of the code; "ok" when all pass.
FetchGate(req, limit, now) ==
  IF req.network = Undef THEN "TypeError"
  ELSE IF ~NetworkSupported(req) THEN "UnsupportedNetwork"
  ELSE IF ExceedsLimit(req, limit) THEN "PaymentLimitExceeded"
  ELSE IF AssetOf(req) # Str_XTZ THEN "UnsupportedAsset"
  ELSE IF ExpiryPassed(req, now) THEN "PaymentExpired"
  ELSE IF ~ValidRecipient(req) THEN "InvalidAddress"
  ELSE "ok"

\* tezos_pay_x402: the amount paid, a requirement's maximum unless overridden
PayAmount(req, override) ==
  IF override # <<>> /\ override[1].n # 0
    THEN Num(xtzToMutez(override[1]))
    ELSE parseInt(req.maxAmountRequired)

\* The gates of tezos_pay_x402 before the balance query, in the order of the code
PayGate(req, override, now) ==
  IF ~NetworkSupported(req) THEN "UnsupportedNetwork"
  ELSE IF AssetOf(req) # Str_XTZ THEN "UnsupportedAsset"
  ELSE IF ExpiryPassed(req, now) THEN "PaymentExpired"
  ELSE IF NumGt(PayAmount(req, override), parseInt(req.maxAmountRequired))
    THEN "OverrideExceedsMaximum"
  ELSE IF ~ValidRecipient(req) THEN "InvalidAddress"
  ELSE "ok"

\* PaymentRequirementsSchema: scheme defaults to "exact", asset to "XTZ";
\* network, maxAmountRequired, resource and payTo are required strings.
ApplySchema(r) ==
  [r EXCEPT !.scheme = IF r.scheme = Undef THEN Str_exact ELSE r.scheme,
            !.asset  = IF r.asset = Undef THEN Str_XTZ ELSE r.asset]

PayParams ==
  { [NoParams EXCEPT !.paymentRequirements = <<ApplySchema(r)>>, !.amount = ov] :
      r \in { q \in Requirements : q.network # Undef /\ q.scheme = Undef },
      ov \in PayOverrides }

\* tezos_fetch_x402: const paymentProof = { scheme: "exact", network, payload }
BuildProof(req, amount, opHash) ==
  [scheme |-> Str_exact,
   network |-> req.network,
   payload |->
     [signature |-> opHash,
      authorization |->
        [from |-> WalletAddress, to |-> req.payTo,
         amount |-> numToString(amount), asset |-> Str_XTZ,
         opHash |-> opHash]]]

\* Mutant: the proof of tezos_pay_x402 names the requirement's asset.
PayProof_RequirementAsset(req, amount, opHash) ==
  [scheme |-> Str_exact,
   network |-> req.network,
   payload |->
     [signature |-> opHash,
      authorization |->
        [from |-> WalletAddress, to |-> req.payTo,
         amount |-> numToString(amount), asset |-> req.asset,
         opHash |-> opHash]]]

\* tezos_pay_x402: const paymentProof = { scheme: "exact", network, payload }
PayProof(req, amount, opHash) ==
  [scheme |-> Str_exact,
   network |-> req.network,
   payload |->
     [signature |-> opHash,
      authorization |->
        [from |-> WalletAddress, to |-> req.payTo,
         amount |-> numToString(amount), asset |-> Str_XTZ,
         opHash |-> opHash]]]

XPaymentHeader(proof) == Base64(JsonStringify(proof))

\* { ...a, ...b }: the properties of a, then those of b over them
Spread(a, b) ==
  [k \in DOMAIN a \cup DOMAIN b |-> IF k \in DOMAIN b THEN b[k] ELSE a[k]]

\* const headers = { Accept, User-Agent, ...customHeaders }
InitialHeaders(customHeaders) ==
  Spread([k \in {"Accept", "User-Agent"} |->
            IF k = "Accept" THEN [text |-> "application/json, */*"]
                            ELSE [text |-> "x402-FA2-MCP/1.0"]],
         customHeaders)

\* Mutant: the retry is sent with the tool's default headers only.
RetryHeaders_DefaultsOnly(customHeaders, xPaymentHeader) ==
  Spread(InitialHeaders(<<>>), [k \in {"X-PAYMENT"} |-> xPaymentHeader])

\* const retryHeaders = { ...headers, "X-PAYMENT": xPaymentHeader }
RetryHeaders(customHeaders, xPaymentHeader) ==
  Spread(InitialHeaders(customHeaders), [k \in {"X-PAYMENT"} |-> xPaymentHeader])

\* The request fetch() is given: the initial one (xPayment = <<>>) or the
\* retry with the proof header.
Request(p, xPayment) ==
  [url |-> p.url, method |-> p.method, body |-> p.body,
   headers |-> IF xPayment = <<>>
                 THEN InitialHeaders(p.headers)
                 ELSE RetryHeaders(p.headers, xPayment[1])]

---------------------------------------------------------------------------
(* Results *)

\* fetch: { status: 402, error: ..., paymentRequirements }
GateFailure(kind, req) ==
  [NoResult EXCEPT !.kind = kind, !.status = 402, !.paymentRequirements = <<req>>]

\* an Error thrown out of the handler
Thrown(kind) == [NoResult EXCEPT !.kind = kind, !.thrown = TRUE]

Done == pc = "done"

---------------------------------------------------------------------------
(* Init: a tool call with its arguments *)

Init ==
  /\ tool \in {"fetch", "pay"}
  /\ params \in IF tool = "fetch"
                  THEN { [NoParams EXCEPT !.url = f.url, !.method = f.method,
                                          !.headers = f.headers, !.body = f.body,
                                          !.maxPayment = f.maxPayment,
                                          !.autoRetry = f.autoRetry] : f \in FetchParams }
                  ELSE PayParams
  /\ pc = "start"
  /\ maxPaymentMutez = 0
  /\ response = <<>>
  /\ parsedReqs = <<>>
  /\ paymentReqs = <<>>
  /\ amountMutez = NaN
  /\ balance = <<>>
  /\ operation = <<>>
  /\ blocks = 0
  /\ paymentProof = <<>>
  /\ requests = <<>>
  /\ events = <<>>
  /\ result = NoResult
  /\ address = Undef
  /\ ledger = 0
  /\ calls = <<>>
  /\ server = StartedServer

---------------------------------------------------------------------------
(* tezos_fetch_x402 *)

\* handler entry up to the first await: the limit is computed and the
\* initial request is issued.
FetchStart ==
  /\ tool = "fetch" /\ pc = "start"
  /\ maxPaymentMutez' = MaxPaymentMutez(params.maxPayment)
  /\ requests' = Append(requests, Request(params, <<>>))
  /\ events' = Append(events, "fetch")
  /\ pc' = "awaitResponse"
  /\ UNCHANGED <<server, address, ledger, calls, tool, params, response, parsedReqs, paymentReqs, amountMutez,
                 balance, operation, blocks, paymentProof, result>>

\* fetch() rejects (transport error, or the 30 s abort): the handler throws.
InitialFetchFails ==
  /\ tool = "fetch" /\ pc = "awaitResponse"
  /\ result' = Thrown("FetchError")
  /\ pc' = "done"
  /\ UNCHANGED <<server, address, ledger, calls, tool, params, maxPaymentMutez, response, parsedReqs, paymentReqs,
                 amountMutez, balance, operation, blocks, paymentProof, requests,
                 events>>

\* Mutant: every error status is taken for "payment required".
IsPaymentRequired_AnyError(resp) == resp.status >= 400

\* response.status !== 402 returns the response; 402 enters the payment flow
IsPaymentRequired(resp) == resp.status = 402

\* Mutant: the network gate is evaluated before the autoRetry decision.
Decide_NetworkFirst(req, autoRetry, limit, now) ==
  IF req.network # Undef /\ ~NetworkSupported(req) THEN "UnsupportedNetwork"
  ELSE IF ~autoRetry THEN "ManualPay"
  ELSE FetchGate(req, limit, now)

\* Mutant: autoRetry is not looked at.
Decide_AlwaysPay(req, autoRetry, limit, now) == FetchGate(req, limit, now)

\* What the handler does with a parsed requirement: the autoRetry decision,
\* then the gates.
Decide(req, autoRetry, limit, now) ==
  IF ~autoRetry THEN "ManualPay" ELSE FetchGate(req, limit, now)

\* Mutant: the resource is overwritten whether or not the server gave one.
DefaultResource_Always(req, url) == [req EXCEPT !.resource = url]

\* if (!paymentReqs.resource) paymentReqs.resource = url
DefaultResource(req, url) ==
  IF Truthy(req.resource) THEN req ELSE [req EXCEPT !.resource = url]

\* The handler from the arrival of the initial response to its next await
\* (the balance query) or to its return.
HandleResponse(resp) ==
  LET parsed  == parsePaymentRequirements(resp.body, resp.headers)
      req     == DefaultResource(parsed[1], params.url)
      outcome == Decide(req, params.autoRetry, maxPaymentMutez, Now)
  IN
  /\ tool = "fetch" /\ pc = "awaitResponse"
  /\ response' = <<resp>>
  /\ IF ~IsPaymentRequired(resp)
       THEN /\ result' = [NoResult EXCEPT !.kind = "Response",
                                          !.status = resp.status,
                                          !.headers = resp.headers,
                                          !.body = <<resp.body>>]
            /\ pc' = "done"
            /\ UNCHANGED <<parsedReqs, paymentReqs, amountMutez, events>>
     ELSE IF parsed = <<>>
       THEN /\ result' = [NoResult EXCEPT !.kind = "UnparsablePaymentRequirement",
                                          !.status = 402,
                                          !.body = <<resp.body>>]
            /\ pc' = "done"
            /\ UNCHANGED <<parsedReqs, paymentReqs, amountMutez, events>>
     ELSE /\ parsedReqs' = parsed
          /\ paymentReqs' = <<req>>
          /\ IF outcome = "ok"
               THEN /\ amountMutez' = parseInt(req.maxAmountRequired)
                    /\ events' = Append(events, "getBalance")
                    /\ pc' = "awaitBalance"
                    /\ UNCHANGED result
               ELSE /\ result' = IF outcome = "TypeError"
                                   THEN Thrown("TypeError")
                                   ELSE GateFailure(outcome, req)
                    /\ amountMutez' =
                         IF outcome \in {"ManualPay", "TypeError", "UnsupportedNetwork"}
                           THEN amountMutez
                           ELSE parseInt(req.maxAmountRequired)
                    /\ pc' = "done"
                    /\ UNCHANGED events
  /\ UNCHANGED <<server, address, ledger, calls, tool, params, maxPaymentMutez, balance, operation, blocks,
                 paymentProof, requests>>

ReceiveResponse == \E resp \in Responses : HandleResponse(resp)

---------------------------------------------------------------------------
(* tezos_pay_x402 *)

\* handler entry up to the balance query; every gate failure is thrown.
PayStart ==
  LET req  == params.paymentRequirements[1]
      gate == PayGate(req, params.amount, Now)
  IN
  /\ tool = "pay" /\ pc = "start"
  /\ paymentReqs' = <<req>>
  /\ IF gate # "ok"
       THEN /\ result' = Thrown(gate)
            /\ pc' = "done"
            /\ UNCHANGED <<amountMutez, events>>
       ELSE /\ amountMutez' = PayAmount(req, params.amount)
            /\ events' = Append(events, "getBalance")
            /\ pc' = "awaitBalance"
            /\ UNCHANGED result
  /\ UNCHANGED <<server, address, ledger, calls, tool, params, maxPaymentMutez, response, parsedReqs, balance,
                 operation, blocks, paymentProof, requests>>

---------------------------------------------------------------------------
(* The payment, common to both tools *)

\* The two tools of the x402 flow
X402Tools == {"fetch", "pay"}

\* Tezos.tz.getBalance resolves: the balance gate, then the transfer call.
BalanceReturns ==
  /\ pc = "awaitBalance" /\ tool \in X402Tools
  /\ \E b \in Balances :
       /\ balance' = <<b>>
       /\ IF ~BalanceCovers(b, amountMutez)
            THEN /\ result' = IF tool = "fetch"
                                THEN GateFailure("InsufficientBalance", paymentReqs[1])
                                ELSE Thrown("InsufficientBalance")
                 /\ pc' = "done"
                 /\ UNCHANGED <<operation, events>>
            ELSE /\ operation' = <<[to |-> paymentReqs[1].payTo,
                                    amount |-> amountMutez,
                                    mutez |-> TRUE,
                                    hash |-> Undef]>>
                 /\ events' = Append(events, "transfer")
                 /\ pc' = "awaitTransfer"
                 /\ UNCHANGED result
  /\ UNCHANGED <<server, address, ledger, calls, tool, params, maxPaymentMutez, response, parsedReqs, paymentReqs,
                 amountMutez, blocks, paymentProof, requests>>

\* Tezos.tz.getBalance rejects: neither handler catches it.
BalanceRaises ==
  /\ pc = "awaitBalance" /\ tool \in X402Tools
  /\ result' = Thrown("BalanceQueryFailed")
  /\ pc' = "done"
  /\ UNCHANGED <<server, address, ledger, calls, tool, params, maxPaymentMutez, response, parsedReqs, paymentReqs,
                 amountMutez, balance, operation, blocks, paymentProof, requests,
                 events>>

\* Mutant: the failure is reported without the underlying error.
PaymentFailed_NoCause(cause) ==
  IF tool = "fetch"
    THEN GateFailure("PaymentExecutionFailed", paymentReqs[1])
    ELSE Thrown("PaymentExecutionFailed")

\* fetch: { status: 402, error: "Payment failed: ..." }; pay: throws.
PaymentFailed(cause) ==
  IF tool = "fetch"
    THEN [GateFailure("PaymentExecutionFailed", paymentReqs[1]) EXCEPT !.cause = cause]
    ELSE [Thrown("PaymentExecutionFailed") EXCEPT !.cause = cause]

\* Tezos.contract.transfer resolves with the injected operation; the
\* handler then waits for its confirmation.
TransferReturns ==
  /\ pc = "awaitTransfer" /\ tool \in X402Tools
  /\ \E h \in OpHashes : operation' = <<[operation[1] EXCEPT !.hash = h]>>
  /\ events' = Append(events, "confirmation")
  /\ pc' = "awaitConfirmation"
  /\ UNCHANGED <<server, address, ledger, calls, tool, params, maxPaymentMutez, response, parsedReqs, paymentReqs,
                 amountMutez, balance, blocks, paymentProof, requests, result>>

\* Mutant: a failed submission is submitted again.
TransferRaises_Resubmit ==
  /\ pc = "awaitTransfer" /\ tool \in X402Tools
  /\ events' = Append(events, "transfer")
  /\ UNCHANGED <<server, address, ledger, calls, tool, pc, params, maxPaymentMutez, response, parsedReqs,
                 paymentReqs, amountMutez, balance, operation, blocks,
                 paymentProof, requests, result>>

TransferRaises ==
  /\ pc = "awaitTransfer" /\ tool \in X402Tools
  /\ result' = PaymentFailed("transfer")
  /\ pc' = "done"
  /\ UNCHANGED <<server, address, ledger, calls, tool, params, maxPaymentMutez, response, parsedReqs, paymentReqs,
                 amountMutez, balance, operation, blocks, paymentProof, requests,
                 events>>

\* The chain bakes a block on top of the operation's.
BlockBaked ==
  /\ pc = "awaitConfirmation"
  /\ blocks < MaxBlocks
  /\ blocks' = blocks + 1
  /\ UNCHANGED <<server, address, ledger, calls, tool, pc, params, maxPaymentMutez, response, parsedReqs,
                 paymentReqs, amountMutez, balance, operation, paymentProof,
                 requests, events, result>>

\* Mutant: the confirmation is not waited for.
ConfirmationReached_NoWait(n) == TRUE

\* operation.confirmation(n) resolves once n confirmations are observed.
ConfirmationReached(n) == blocks >= n

\* await operation.confirmation(CONFIRMATIONS_TO_WAIT) resolves: the proof
\* is built; fetch reissues the request with it, pay returns it.
ConfirmationReturns ==
  LET opHash == operation[1].hash
      proof  == IF tool = "fetch"
                  THEN BuildProof(paymentReqs[1], amountMutez, opHash)
                  ELSE PayProof(paymentReqs[1], amountMutez, opHash)
  IN
  /\ pc = "awaitConfirmation" /\ tool \in X402Tools
  /\ ConfirmationReached(CONFIRMATIONS_TO_WAIT)
  /\ paymentProof' = <<proof>>
  /\ IF tool = "fetch"
       THEN /\ requests' = Append(requests, Request(params, <<XPaymentHeader(proof)>>))
            /\ events' = Append(events, "fetch")
            /\ pc' = "awaitRetry"
            /\ UNCHANGED result
       ELSE /\ result' = [NoResult EXCEPT !.kind = "PaymentSucceeded",
                                          !.paymentSucceeded = TRUE,
                                          !.opHash = opHash,
                                          !.amountMutez = amountMutez,
                                          !.recipient = paymentReqs[1].payTo,
                                          !.xPaymentHeader = <<XPaymentHeader(proof)>>]
            /\ pc' = "done"
            /\ UNCHANGED <<requests, events>>
  /\ UNCHANGED <<server, address, ledger, calls, tool, params, maxPaymentMutez, response, parsedReqs, paymentReqs,
                 amountMutez, balance, operation, blocks>>

\* Mutant: after a failed confirmation the balance is queried again.
ConfirmationRaises_Revalidate ==
  /\ pc = "awaitConfirmation" /\ tool \in X402Tools
  /\ events' = Append(events, "getBalance")
  /\ pc' = "awaitBalance"
  /\ UNCHANGED <<server, address, ledger, calls, tool, params, maxPaymentMutez, response, parsedReqs, paymentReqs,
                 amountMutez, balance, operation, blocks, paymentProof, requests,
                 result>>

ConfirmationRaises ==
  /\ pc = "awaitConfirmation" /\ tool \in X402Tools
  /\ result' = PaymentFailed("confirmation")
  /\ pc' = "done"
  /\ UNCHANGED <<server, address, ledger, calls, tool, params, maxPaymentMutez, response, parsedReqs, paymentReqs,
                 amountMutez, balance, operation, blocks, paymentProof, requests,
                 events>>

---------------------------------------------------------------------------
(* fetch: the retry *)

\* The retried request is answered: its status and body are returned with
\* the payment summary; a response proof header is decoded.
RetryReturns ==
  /\ pc = "awaitRetry"
  /\ \E resp \in RetryResponses :
       LET xpr == resp.headers.xPaymentResponse IN
       /\ response' = Append(response, resp)
       /\ result' =
            IF Truthy(xpr) /\ ~DecodesToJson(xpr)
              THEN Thrown("SyntaxError")
              ELSE [NoResult EXCEPT !.kind = "Paid",
                                    !.status = resp.status,
                                    !.body = <<resp.body>>,
                                    !.paymentSucceeded = TRUE,
                                    !.opHash = operation[1].hash,
                                    !.amountMutez = amountMutez,
                                    !.recipient = paymentReqs[1].payTo,
                                    !.xPaymentResponse =
                                       IF Truthy(xpr) THEN <<xpr>> ELSE <<>>]
  /\ pc' = "done"
  /\ UNCHANGED <<server, address, ledger, calls, tool, params, maxPaymentMutez, parsedReqs, paymentReqs,
                 amountMutez, balance, operation, blocks, paymentProof, requests,
                 events>>

\* Mutant: a failed retry is reported as a failed payment.
RetryFails_AsPaymentFailed ==
  /\ pc = "awaitRetry"
  /\ result' = PaymentFailed("retry")
  /\ pc' = "done"
  /\ UNCHANGED <<server, address, ledger, calls, tool, params, maxPaymentMutez, response, parsedReqs, paymentReqs,
                 amountMutez, balance, operation, blocks, paymentProof, requests,
                 events>>

\* The retried fetch() rejects (transport error or abort).
RetryFails ==
  /\ pc = "awaitRetry"
  /\ result' = [NoResult EXCEPT !.kind = "PaymentMadeRetryFailed",
                                !.paymentSucceeded = TRUE,
                                !.opHash = operation[1].hash,
                                !.amountMutez = amountMutez,
                                !.xPaymentHeader = <<XPaymentHeader(paymentProof[1])>>]
  /\ pc' = "done"
  /\ UNCHANGED <<server, address, ledger, calls, tool, params, maxPaymentMutez, response, parsedReqs, paymentReqs,
                 amountMutez, balance, operation, blocks, paymentProof, requests,
                 events>>

---------------------------------------------------------------------------

Next ==
  \/ FetchStart
  \/ InitialFetchFails
  \/ ReceiveResponse
  \/ PayStart
  \/ BalanceReturns
  \/ BalanceRaises
  \/ TransferReturns
  \/ TransferRaises
  \/ BlockBaked
  \/ ConfirmationReturns
  \/ ConfirmationRaises
  \/ RetryReturns
  \/ RetryFails

Spec == Init /\ [][Next]_vars

\* Every await of the handler settles: fetch() responds or is aborted by its
\* 30 s timer, and each ledger call returns or raises.
FairSpec == Spec /\ WF_vars(Next)

---------------------------------------------------------------------------
(* The wallet tools: tezos_send_xtz, tezos_swap_xtz_to_token and           *)
(* tezos_transfer_fa2 move value; tezos_get_balance and                     *)
(* tezos_get_token_balance query the chain.                                 *)

\* /^KT1[a-zA-Z0-9]{33}$/
MatchesContract(s) ==
  /\ s # Undef
  /\ Len(s) = 36
  /\ SubSeq(s, 1, 3) = <<"K","T","1">>
  /\ \A i \in 4..36 : IsAlnum(s[i])

\* amount <= 0, for a number n/d
NotPositive(x) == x.n <= 0

\* The fee reserves the tools add to the amount: 0.1 XTZ for a transfer,
\* 0.5 XTZ for a swap
SEND_RESERVE == 100000
SWAP_RESERVE == 500000
FA2_FEE_RESERVE == 100000

Addr_KT1short == <<"K","T","1">> \o Repeat("B", 32)

\* XTZ and token amounts a caller passes (z.number()), as fractions n/d
ToolAmounts ==
  { [n |-> 0 - 1, d |-> 1], [n |-> 0, d |-> 1], [n |-> 1, d |-> 10000000],
    [n |-> 1, d |-> 10], [n |-> 2, d |-> 1] }

\* Wallet balances around the three reserves
ToolBalances == { 99999, 100000, 199999, 200000, 599999, 600000 }

SendXtzParams ==
  { [toAddress |-> a, amount |-> x] : a \in PayTos, x \in ToolAmounts }

SwapXtzToTokenParams ==
  { [swapContract |-> a, xtzAmount |-> x, expectedRate |-> r] :
      a \in { Addr_KT1, Addr_tz1, Addr_KT1short },
      x \in ToolAmounts,
      r \in { <<>>, <<1000>> } }

TransferFa2Params ==
  { [tokenAddress |-> a, to |-> t, tokenId |-> 0, amount |-> x] :
      a \in { Addr_KT1, Addr_tz1 },
      t \in { Addr_tz1, Addr_short },
      x \in ToolAmounts }

\* The markers the handlers look for in the message of a failed send
Str_paused == <<"p","a","u","s","e","d">>
Str_FA2_INSUFFICIENT_BALANCE == <<"F","A","2","_","I","N","S","U","F","F","I","C","I","E","N","T","_","B","A","L","A","N","C","E">>
Str_FA2_TOKEN_UNDEFINED == <<"F","A","2","_","T","O","K","E","N","_","U","N","D","E","F","I","N","E","D">>
Str_FA2_NOT_OPERATOR == <<"F","A","2","_","N","O","T","_","O","P","E","R","A","T","O","R">>

\* Messages of the errors the chain library raises
ChainMessages ==
  { <<"S","w","a","p"," ","i","s"," ","p","a","u","s","e","d">>,
    <<"P","a","u","s","e","d">>,
    <<"F","A","2","_","I","N","S","U","F","F","I","C","I","E","N","T","_","B","A","L","A","N","C","E">>,
    <<"F","A","2","_","T","O","K","E","N","_","U","N","D","E","F","I","N","E","D">>,
    <<"F","A","2","_","N","O","T","_","O","P","E","R","A","T","O","R">>,
    <<"p","a","u","s","e","d"," ","F","A","2","_","I","N","S","U","F","F","I","C","I","E","N","T","_","B","A","L","A","N","C","E">>,
    <<"F","A","2","_","N","O","T","_","O","P","E","R","A","T","O","R"," ","F","A","2","_","T","O","K","E","N","_","U","N","D","E","F","I","N","E","D">>,
    <<"t","i","m","e","o","u","t">> }

\* The texts of the errors the handlers build
Msg_TransferFailed == <<"T","r","a","n","s","f","e","r"," ","f","a","i","l","e","d",":"," ">>
Msg_SwapFailed == <<"S","w","a","p"," ","f","a","i","l","e","d",":"," ">>
Msg_SwapPaused == <<"S","w","a","p"," ","c","o","n","t","r","a","c","t"," ","i","s"," ","p","a","u","s","e","d">>
Msg_SwapLiquidity == <<"S","w","a","p"," ","c","o","n","t","r","a","c","t"," ","h","a","s"," ","i","n","s","u","f","f","i","c","i","e","n","t"," ","t","o","k","e","n"," ","l","i","q","u","i","d","i","t","y">>
Msg_Fa2Failed == <<"F","A","2"," ","t","r","a","n","s","f","e","r"," ","f","a","i","l","e","d",":"," ">>
Msg_TokenBalance ==
  <<"I","n","s","u","f","f","i","c","i","e","n","t"," ","t","o","k","e","n"," ","b","a","l","a","n","c","e","."," ","U","s","e"," ","t","e","z","o","s","_","g","e","t","_","t","o","k","e","n","_","b","a","l","a","n","c","e"," ","t","o"," ","c","h","e","c","k"," ","y","o","u","r"," ","b","a","l","a","n","c","e",".">>
Msg_TokenUndefined(tokenId) == <<"T","o","k","e","n"," ","I","D"," ">> \o NatToString(tokenId) \o <<" ","d","o","e","s"," ","n","o","t"," ","e","x","i","s","t">>
Msg_NotOperator == <<"N","o","t"," ","a","u","t","h","o","r","i","z","e","d"," ","t","o"," ","t","r","a","n","s","f","e","r"," ","t","o","k","e","n","s">>

\* What the wallet tools never change
x402Vars ==
  <<maxPaymentMutez, response, parsedReqs, paymentReqs, paymentProof, requests>>
notWalletVars == <<server, ledger, calls, tool, params, x402Vars>>

\* throw new Error(...) out of the handler
Raise(kind) ==
  /\ result' = Thrown(kind)
  /\ pc' = "done"

\* throw new Error(prefix + message) in a catch block; cause is the call
\* that failed, raw the message it failed with
RaiseWrapped(kind, text, cause, raw) ==
  /\ result' = [Thrown(kind) EXCEPT !.message = text, !.cause = cause, !.raw = raw]
  /\ pc' = "done"

\* the next step of the handler is the chain call e
Call(e, next) ==
  /\ events' = Append(events, e)
  /\ pc' = next

---------------------------------------------------------------------------
(* tezos_send_xtz *)

\* handler entry up to the balance query
SendXtzStart ==
  /\ tool = "send" /\ pc = "start"
  /\ IF ~MatchesAddress(params.toAddress)
       THEN Raise("InvalidRecipient") /\ UNCHANGED <<amountMutez, events>>
     ELSE IF NotPositive(params.amount)
       THEN Raise("AmountNotPositive") /\ UNCHANGED <<amountMutez, events>>
     ELSE /\ amountMutez' = Num(xtzToMutez(params.amount))
          /\ Call("getBalance", "awaitBalance")
          /\ UNCHANGED result
  /\ UNCHANGED <<notWalletVars, address, balance, operation, blocks>>

\* Mutant: the balance has to cover the amount alone, without the reserve.
SendXtzBalanceReturns_NoReserve ==
  /\ tool = "send" /\ pc = "awaitBalance"
  /\ \E b \in ToolBalances :
       /\ balance' = <<b>>
       /\ IF b < amountMutez.v
            THEN Raise("InsufficientBalance") /\ UNCHANGED <<operation, events>>
            ELSE /\ operation' = <<[to |-> params.toAddress,
                                    amount |-> params.amount,
                                    mutez |-> FALSE,
                                    hash |-> Undef]>>
                 /\ Call("transfer", "awaitTransfer")
                 /\ UNCHANGED result
  /\ UNCHANGED <<notWalletVars, address, amountMutez, blocks>>

\* getBalance resolves: the balance gate, then Tezos.contract.transfer with
\* the amount in XTZ
SendXtzBalanceReturns ==
  /\ tool = "send" /\ pc = "awaitBalance"
  /\ \E b \in ToolBalances :
       /\ balance' = <<b>>
       /\ IF b < amountMutez.v + SEND_RESERVE
            THEN Raise("InsufficientBalance") /\ UNCHANGED <<operation, events>>
            ELSE /\ operation' = <<[to |-> params.toAddress,
                                    amount |-> params.amount,
                                    mutez |-> FALSE,
                                    hash |-> Undef]>>
                 /\ Call("transfer", "awaitTransfer")
                 /\ UNCHANGED result
  /\ UNCHANGED <<notWalletVars, address, amountMutez, blocks>>

\* Tezos.tz.getBalance rejects in a value-moving tool: the call is outside
\* the try block, the error leaves the handler as it is.
WalletBalanceRaises ==
  /\ tool \in {"send", "swap", "fa2"} /\ pc = "awaitBalance"
  /\ Raise("BalanceQueryFailed")
  /\ UNCHANGED <<notWalletVars, address, amountMutez, balance, operation,
                 blocks, events>>

\* transfer resolves with the injected operation
SendXtzTransferReturns ==
  /\ tool = "send" /\ pc = "awaitTransfer"
  /\ \E h \in OpHashes : operation' = <<[operation[1] EXCEPT !.hash = h]>>
  /\ Call("confirmation", "awaitConfirmation")
  /\ UNCHANGED <<notWalletVars, address, amountMutez, balance, blocks, result>>

\* transfer rejects: catch (error) { throw "Transfer failed: ..." }
SendXtzTransferRaises ==
  /\ tool = "send" /\ pc = "awaitTransfer"
  /\ \E raw \in ChainMessages :
       RaiseWrapped("TransferFailed", Msg_TransferFailed \o raw, "transfer", raw)
  /\ UNCHANGED <<notWalletVars, address, amountMutez, balance, operation,
                 blocks, events>>

\* Mutant: success is reported as soon as the operation is injected.
SendXtzConfirmationReturns_NoWait ==
  /\ tool = "send" /\ pc = "awaitConfirmation"
  /\ result' = [NoResult EXCEPT !.kind = "Sent", !.success = TRUE,
                                !.opHash = operation[1].hash,
                                !.recipient = params.toAddress,
                                !.amountMutez = amountMutez]
  /\ pc' = "done"
  /\ UNCHANGED <<notWalletVars, address, amountMutez, balance, operation,
                 blocks, events>>

\* operation.confirmation(CONFIRMATIONS_TO_WAIT) resolves: success
SendXtzConfirmationReturns ==
  /\ tool = "send" /\ pc = "awaitConfirmation"
  /\ ConfirmationReached(CONFIRMATIONS_TO_WAIT)
  /\ result' = [NoResult EXCEPT !.kind = "Sent", !.success = TRUE,
                                !.opHash = operation[1].hash,
                                !.recipient = params.toAddress,
                                !.amountMutez = amountMutez]
  /\ pc' = "done"
  /\ UNCHANGED <<notWalletVars, address, amountMutez, balance, operation,
                 blocks, events>>

\* confirmation rejects: the same catch block
SendXtzConfirmationRaises ==
  /\ tool = "send" /\ pc = "awaitConfirmation"
  /\ \E raw \in ChainMessages :
       RaiseWrapped("TransferFailed", Msg_TransferFailed \o raw, "confirmation", raw)
  /\ UNCHANGED <<notWalletVars, address, amountMutez, balance, operation,
                 blocks, events>>

---------------------------------------------------------------------------
(* tezos_swap_xtz_to_token *)

\* handler entry up to the balance query
SwapStart ==
  /\ tool = "swap" /\ pc = "start"
  /\ IF ~MatchesContract(params.swapContract)
       THEN Raise("InvalidContract") /\ UNCHANGED <<amountMutez, events>>
     ELSE IF NotPositive(params.xtzAmount)
       THEN Raise("AmountNotPositive") /\ UNCHANGED <<amountMutez, events>>
     ELSE /\ amountMutez' = Num(xtzToMutez(params.xtzAmount))
          /\ Call("getBalance", "awaitBalance")
          /\ UNCHANGED result
  /\ UNCHANGED <<notWalletVars, address, balance, operation, blocks>>

\* getBalance resolves: the balance gate, then Tezos.contract.at(swapContract)
SwapBalanceReturns ==
  /\ tool = "swap" /\ pc = "awaitBalance"
  /\ \E b \in ToolBalances :
       /\ balance' = <<b>>
       /\ IF b < amountMutez.v + SWAP_RESERVE
            THEN Raise("InsufficientBalance") /\ UNCHANGED events
            ELSE Call("contract.at", "awaitContract") /\ UNCHANGED result
  /\ UNCHANGED <<notWalletVars, address, amountMutez, operation, blocks>>

\* contract.at resolves: swap.methods.swap().send({ amount: xtzAmount,
\* mutez: false })
SwapContractReturns ==
  /\ tool = "swap" /\ pc = "awaitContract"
  /\ operation' = <<[to |-> params.swapContract,
                     amount |-> params.xtzAmount,
                     mutez |-> FALSE,
                     hash |-> Undef]>>
  /\ Call("send", "awaitSend")
  /\ UNCHANGED <<notWalletVars, address, amountMutez, balance, blocks, result>>

\* contract.at rejects: the outer catch block
SwapContractRaises ==
  /\ tool = "swap" /\ pc = "awaitContract"
  /\ \E raw \in ChainMessages :
       RaiseWrapped("SwapFailed", Msg_SwapFailed \o raw, "contract.at", raw)
  /\ UNCHANGED <<notWalletVars, address, amountMutez, balance, operation,
                 blocks, events>>

\* send resolves with the injected operation
SwapSendReturns ==
  /\ tool = "swap" /\ pc = "awaitSend"
  /\ \E h \in OpHashes : operation' = <<[operation[1] EXCEPT !.hash = h]>>
  /\ Call("confirmation", "awaitConfirmation")
  /\ UNCHANGED <<notWalletVars, address, amountMutez, balance, blocks, result>>

\* Mutant: a rejected send is reported with the message of the chain only.
SwapSendError_Unclassified(message) == Msg_SwapFailed \o message

\* The error the inner catch block throws for a rejected send
SwapSendError(message) ==
  IF includes(message, Str_paused) THEN Msg_SwapPaused
  ELSE IF includes(message, Str_FA2_INSUFFICIENT_BALANCE) THEN Msg_SwapLiquidity
  ELSE Msg_SwapFailed \o message

\* send rejects: the inner catch block throws the classified error, and the
\* outer catch block, which it is inside of, throws it again behind
\* "Swap failed: "
SwapSendRaises ==
  /\ tool = "swap" /\ pc = "awaitSend"
  /\ \E raw \in ChainMessages :
       RaiseWrapped("SwapFailed", Msg_SwapFailed \o SwapSendError(raw), "send", raw)
  /\ UNCHANGED <<notWalletVars, address, amountMutez, balance, operation,
                 blocks, events>>

\* expectedRate ? Math.floor(xtzAmount * expectedRate) : "Check balance to verify"
ExpectedTokens(xtzAmount, expectedRate) ==
  IF expectedRate # <<>> /\ expectedRate[1] # 0
    THEN <<(xtzAmount.n * expectedRate[1]) \div xtzAmount.d>>
    ELSE <<>>

\* confirmation resolves: success
SwapConfirmationReturns ==
  /\ tool = "swap" /\ pc = "awaitConfirmation"
  /\ ConfirmationReached(CONFIRMATIONS_TO_WAIT)
  /\ result' = [NoResult EXCEPT !.kind = "Swapped", !.success = TRUE,
                                !.opHash = operation[1].hash,
                                !.recipient = params.swapContract,
                                !.amountMutez = amountMutez,
                                !.expectedTokens =
                                   ExpectedTokens(params.xtzAmount, params.expectedRate)]
  /\ pc' = "done"
  /\ UNCHANGED <<notWalletVars, address, amountMutez, balance, operation,
                 blocks, events>>

\* confirmation rejects: the outer catch block
SwapConfirmationRaises ==
  /\ tool = "swap" /\ pc = "awaitConfirmation"
  /\ \E raw \in ChainMessages :
       RaiseWrapped("SwapFailed", Msg_SwapFailed \o raw, "confirmation", raw)
  /\ UNCHANGED <<notWalletVars, address, amountMutez, balance, operation,
                 blocks, events>>

---------------------------------------------------------------------------
(* tezos_transfer_fa2 *)

\* handler entry up to the balance query
TransferFa2Start ==
  /\ tool = "fa2" /\ pc = "start"
  /\ IF ~MatchesContract(params.tokenAddress)
       THEN Raise("InvalidContract") /\ UNCHANGED events
     ELSE IF ~MatchesAddress(params.to)
       THEN Raise("InvalidRecipient") /\ UNCHANGED events
     ELSE IF NotPositive(params.amount)
       THEN Raise("AmountNotPositive") /\ UNCHANGED events
     ELSE Call("getBalance", "awaitBalance") /\ UNCHANGED result
  /\ UNCHANGED <<notWalletVars, address, amountMutez, balance, operation, blocks>>

\* getBalance resolves: the fee gate, then Tezos.contract.at(tokenAddress)
TransferFa2BalanceReturns ==
  /\ tool = "fa2" /\ pc = "awaitBalance"
  /\ \E b \in ToolBalances :
       /\ balance' = <<b>>
       /\ IF b < FA2_FEE_RESERVE
            THEN Raise("InsufficientBalance") /\ UNCHANGED events
            ELSE Call("contract.at", "awaitContract") /\ UNCHANGED result
  /\ UNCHANGED <<notWalletVars, address, amountMutez, operation, blocks>>

\* contract.at resolves: contract.methods.transfer([{ from_, txs: [{ to_,
\* token_id, amount }] }]).send()
TransferFa2ContractReturns ==
  /\ tool = "fa2" /\ pc = "awaitContract"
  /\ operation' = <<[to |-> params.tokenAddress,
                     transferParams |->
                       <<[from_ |-> WalletAddress,
                          txs |-> <<[to_ |-> params.to,
                                     token_id |-> params.tokenId,
                                     amount |-> params.amount]>>]>>,
                     hash |-> Undef]>>
  /\ Call("send", "awaitSend")
  /\ UNCHANGED <<notWalletVars, address, amountMutez, balance, blocks, result>>

\* contract.at rejects: the outer catch block
TransferFa2ContractRaises ==
  /\ tool = "fa2" /\ pc = "awaitContract"
  /\ \E raw \in ChainMessages :
       RaiseWrapped("Fa2TransferFailed", Msg_Fa2Failed \o raw, "contract.at", raw)
  /\ UNCHANGED <<notWalletVars, address, amountMutez, balance, operation,
                 blocks, events>>

\* send resolves with the injected operation
TransferFa2SendReturns ==
  /\ tool = "fa2" /\ pc = "awaitSend"
  /\ \E h \in OpHashes : operation' = <<[operation[1] EXCEPT !.hash = h]>>
  /\ Call("confirmation", "awaitConfirmation")
  /\ UNCHANGED <<notWalletVars, address, amountMutez, balance, blocks, result>>

\* The error the inner catch block throws for a rejected send
TransferFa2SendError(message, tokenId) ==
  IF includes(message, Str_FA2_INSUFFICIENT_BALANCE) THEN Msg_TokenBalance
  ELSE IF includes(message, Str_FA2_TOKEN_UNDEFINED) THEN Msg_TokenUndefined(tokenId)
  ELSE IF includes(message, Str_FA2_NOT_OPERATOR) THEN Msg_NotOperator
  ELSE Msg_TransferFailed \o message

\* send rejects: the classified error, thrown again by the outer catch
\* block behind "FA2 transfer failed: "
TransferFa2SendRaises ==
  /\ tool = "fa2" /\ pc = "awaitSend"
  /\ \E raw \in ChainMessages :
       RaiseWrapped("Fa2TransferFailed",
                    Msg_Fa2Failed \o TransferFa2SendError(raw, params.tokenId),
                    "send", raw)
  /\ UNCHANGED <<notWalletVars, address, amountMutez, balance, operation,
                 blocks, events>>

\* confirmation resolves: success
TransferFa2ConfirmationReturns ==
  /\ tool = "fa2" /\ pc = "awaitConfirmation"
  /\ ConfirmationReached(CONFIRMATIONS_TO_WAIT)
  /\ result' = [NoResult EXCEPT !.kind = "Transferred", !.success = TRUE,
                                !.opHash = operation[1].hash,
                                !.recipient = params.to]
  /\ pc' = "done"
  /\ UNCHANGED <<notWalletVars, address, amountMutez, balance, operation,
                 blocks, events>>

\* confirmation rejects: the outer catch block
TransferFa2ConfirmationRaises ==
  /\ tool = "fa2" /\ pc = "awaitConfirmation"
  /\ \E raw \in ChainMessages :
       RaiseWrapped("Fa2TransferFailed", Msg_Fa2Failed \o raw, "confirmation", raw)
  /\ UNCHANGED <<notWalletVars, address, amountMutez, balance, operation,
                 blocks, events>>

---------------------------------------------------------------------------
(* tezos_get_balance *)

\* An optional address argument: absent, empty, or a string
QueryAddresses == { Undef, <<>>, Addr_tz1, Addr_KT1, Addr_short }

GetBalanceParams == { [address |-> a] : a \in QueryAddresses }

GetTokenBalanceParams ==
  { [tokenAddress |-> a, tokenId |-> 0, owner |-> o] :
      a \in { Addr_KT1, Addr_tz1 }, o \in QueryAddresses }

Msg_BalanceFailed == <<"F","a","i","l","e","d"," ","t","o"," ","g","e","t"," ","b","a","l","a","n","c","e",":"," ">>
Msg_TokenBalanceFailed == <<"F","a","i","l","e","d"," ","t","o"," ","g","e","t"," ","t","o","k","e","n"," ","b","a","l","a","n","c","e",":"," ">>

\* Mutant: the address argument is used as given.
OrWallet_AsGiven(a) == IF a = Undef THEN <<>> ELSE a

\* a || walletAddress
OrWallet(a) == IF Truthy(a) THEN a ELSE WalletAddress

\* handler entry up to the balance query
GetBalanceStart ==
  /\ tool = "getBalance" /\ pc = "start"
  /\ address' = OrWallet(params.address)
  /\ IF ~MatchesAddress(OrWallet(params.address))
       THEN Raise("InvalidAddress") /\ UNCHANGED events
       ELSE Call("getBalance", "awaitBalance") /\ UNCHANGED result
  /\ UNCHANGED <<notWalletVars, amountMutez, balance, operation, blocks>>

\* Tezos.tz.getBalance(address) resolves: the balance is returned
GetBalanceReturns ==
  /\ tool = "getBalance" /\ pc = "awaitBalance"
  /\ \E b \in ToolBalances :
       /\ balance' = <<b>>
       /\ result' = [NoResult EXCEPT !.kind = "Balance", !.address = address,
                                     !.balance = <<b>>]
  /\ pc' = "done"
  /\ UNCHANGED <<notWalletVars, address, amountMutez, operation, blocks, events>>

\* getBalance rejects: catch (error) { throw "Failed to get balance: ..." }
GetBalanceRaises ==
  /\ tool = "getBalance" /\ pc = "awaitBalance"
  /\ \E raw \in ChainMessages :
       RaiseWrapped("GetBalanceFailed", Msg_BalanceFailed \o raw, "getBalance", raw)
  /\ UNCHANGED <<notWalletVars, address, amountMutez, balance, operation,
                 blocks, events>>

---------------------------------------------------------------------------
(* tezos_get_token_balance *)

\* What a ledger lookup or the get_balance view yields: undefined (<<>>) or
\* a number
TokenValues == { <<>>, <<0>>, <<7>> }

\* handler entry up to Tezos.contract.at(tokenAddress)
GetTokenBalanceStart ==
  /\ tool = "getTokenBalance" /\ pc = "start"
  /\ address' = OrWallet(params.owner)
  /\ IF ~MatchesContract(params.tokenAddress)
       THEN Raise("InvalidContract") /\ UNCHANGED events
     ELSE IF ~MatchesAddress(OrWallet(params.owner))
       THEN Raise("InvalidOwner") /\ UNCHANGED events
     ELSE Call("contract.at", "awaitContract") /\ UNCHANGED result
  /\ UNCHANGED <<notWalletVars, amountMutez, balance, operation, blocks>>

\* contract.at resolves: contract.storage()
TokenContractReturns ==
  /\ tool = "getTokenBalance" /\ pc = "awaitContract"
  /\ Call("storage", "awaitStorage")
  /\ UNCHANGED <<notWalletVars, address, amountMutez, balance, operation,
                 blocks, result>>

\* contract.at or contract.storage rejects: the outer catch block
TokenReadRaises ==
  /\ tool = "getTokenBalance" /\ pc \in {"awaitContract", "awaitStorage"}
  /\ \E raw \in ChainMessages :
       RaiseWrapped("GetTokenBalanceFailed", Msg_TokenBalanceFailed \o raw,
                    events[Len(events)], raw)
  /\ UNCHANGED <<notWalletVars, address, amountMutez, balance, operation,
                 blocks, events>>

\* return { tokenAddress, tokenId, owner: ownerAddress, balance }
TokenReturn(bal) ==
  /\ balance' = <<bal>>
  /\ result' = [NoResult EXCEPT !.kind = "TokenBalance", !.address = address,
                                !.balance = <<bal>>]
  /\ pc' = "done"
  /\ UNCHANGED events

\* if (balance === 0) the get_balance view is executed when the contract has
\* one; then the balance is returned
TokenTryView(bal) ==
  \E hasView \in BOOLEAN :
    IF bal = 0 /\ hasView
      THEN /\ balance' = <<bal>>
           /\ Call("executeView", "awaitView")
           /\ UNCHANGED result
      ELSE TokenReturn(bal)

\* storage resolves: let balance = 0; the ledger is asked for the key
\* { owner, token_id } when the storage has one
TokenStorageReturns ==
  /\ tool = "getTokenBalance" /\ pc = "awaitStorage"
  /\ \E hasLedger \in BOOLEAN :
       IF hasLedger
         THEN /\ balance' = <<0>>
              /\ Call("ledger.get", "awaitLedger")
              /\ UNCHANGED result
         ELSE TokenTryView(0)
  /\ UNCHANGED <<notWalletVars, address, amountMutez, operation, blocks>>

\* ledger.get resolves, for either key
TokenLedgerReturns ==
  /\ tool = "getTokenBalance" /\ pc \in {"awaitLedger", "awaitLedger2"}
  /\ \E v \in TokenValues : TokenTryView(IF v = <<>> THEN 0 ELSE v[1])
  /\ UNCHANGED <<notWalletVars, address, amountMutez, operation, blocks>>

\* ledger.get rejects: the composite key is followed by the owner's address
\* as key, and that by the view
TokenLedgerRaises ==
  /\ tool = "getTokenBalance" /\ pc \in {"awaitLedger", "awaitLedger2"}
  /\ IF pc = "awaitLedger"
       THEN /\ Call("ledger.get", "awaitLedger2")
            /\ UNCHANGED <<balance, result>>
       ELSE TokenTryView(0)
  /\ UNCHANGED <<notWalletVars, address, amountMutez, operation, blocks>>

\* executeView resolves: viewResult?.toNumber?.() || parseInt(... || "0")
TokenViewReturns ==
  /\ tool = "getTokenBalance" /\ pc = "awaitView"
  /\ \E v \in TokenValues : TokenReturn(IF v = <<>> THEN 0 ELSE v[1])
  /\ UNCHANGED <<notWalletVars, address, amountMutez, operation, blocks>>

\* executeView rejects: caught, the balance stays 0
TokenViewRaises ==
  /\ tool = "getTokenBalance" /\ pc = "awaitView"
  /\ TokenReturn(0)
  /\ UNCHANGED <<notWalletVars, address, amountMutez, operation, blocks>>

---------------------------------------------------------------------------
(* A call of any tool but tezos_fetch_x402 *)

ToolsInit ==
  /\ tool \in {"pay", "send", "swap", "fa2", "getBalance", "getTokenBalance"}
  /\ params \in CASE tool = "pay" -> PayParams
                  [] tool = "send" -> SendXtzParams
                  [] tool = "swap" -> SwapXtzToTokenParams
                  [] tool = "fa2" -> TransferFa2Params
                  [] tool = "getBalance" -> GetBalanceParams
                  [] tool = "getTokenBalance" -> GetTokenBalanceParams
  /\ pc = "start"
  /\ maxPaymentMutez = 0
  /\ response = <<>> /\ parsedReqs = <<>> /\ paymentReqs = <<>>
  /\ amountMutez = NaN
  /\ balance = <<>> /\ operation = <<>> /\ blocks = 0
  /\ paymentProof = <<>> /\ requests = <<>> /\ events = <<>>
  /\ result = NoResult
  /\ address = Undef
  /\ ledger = 0
  /\ calls = <<>>
  /\ server = StartedServer

ToolsNext ==
  \/ PayStart
  \/ BalanceReturns
  \/ BalanceRaises
  \/ TransferReturns
  \/ TransferRaises
  \/ ConfirmationReturns
  \/ ConfirmationRaises
  \/ BlockBaked
  \/ SendXtzStart
  \/ SendXtzBalanceReturns
  \/ WalletBalanceRaises
  \/ SendXtzTransferReturns
  \/ SendXtzTransferRaises
  \/ SendXtzConfirmationReturns
  \/ SendXtzConfirmationRaises
  \/ SwapStart
  \/ SwapBalanceReturns
  \/ SwapContractReturns
  \/ SwapContractRaises
  \/ SwapSendReturns
  \/ SwapSendRaises
  \/ SwapConfirmationReturns
  \/ SwapConfirmationRaises
  \/ TransferFa2Start
  \/ TransferFa2BalanceReturns
  \/ TransferFa2ContractReturns
  \/ TransferFa2ContractRaises
  \/ TransferFa2SendReturns
  \/ TransferFa2SendRaises
  \/ TransferFa2ConfirmationReturns
  \/ TransferFa2ConfirmationRaises
  \/ GetBalanceStart
  \/ GetBalanceReturns
  \/ GetBalanceRaises
  \/ GetTokenBalanceStart
  \/ TokenContractReturns
  \/ TokenReadRaises
  \/ TokenStorageReturns
  \/ TokenLedgerReturns
  \/ TokenLedgerRaises
  \/ TokenViewReturns
  \/ TokenViewRaises

ToolsSpec == ToolsInit /\ [][ToolsNext]_vars

---------------------------------------------------------------------------
(* The server's startup: init, and the handler of its rejection             *)

\* const NETWORKS = { mainnet: {...}, ghostnet: {...}, shadownet: {...} }
NETWORKS ==
  [mainnet   |-> [rpcUrl |-> <<"https://mainnet.tezos.ecadinfra.com">>,
                  tzktUrl |-> <<"https://tzkt.io">>],
   ghostnet  |-> [rpcUrl |-> <<"https://ghostnet.tezos.ecadinfra.com">>,
                  tzktUrl |-> <<"https://ghostnet.tzkt.io">>],
   shadownet |-> [rpcUrl |-> <<"https://rpc.shadownet.teztnets.com">>,
                  tzktUrl |-> <<"https://shadownet.tzkt.io">>]]

\* Properties an object literal inherits from Object.prototype
ObjectPrototypeKeys ==
  { "constructor", "toString", "valueOf", "hasOwnProperty", "__proto__" }

\* NETWORKS[networkName]: <<>> for undefined, else the value: an own
\* property, or an inherited one, which has neither rpcUrl nor tzktUrl
Lookup(networkName) ==
  IF networkName \in DOMAIN NETWORKS THEN <<NETWORKS[networkName]>>
  ELSE IF networkName \in ObjectPrototypeKeys
    THEN <<[rpcUrl |-> <<>>, tzktUrl |-> <<>>]>>
  ELSE <<>>

\* JavaScript truthiness of an environment variable: unset and "" are falsy
IsSet(v) == v # <<>> /\ v[1] # ""

\* Values of the two environment variables
NetworkValues ==
  { <<>>, <<"">>, <<"mainnet">>, <<"ghostnet">>, <<"shadownet">>,
    <<"testnet">>, <<"Mainnet">>, <<"constructor">> }
KeyValues == { <<>>, <<"">>, <<"edsk">>, <<"not-a-key">> }

\* The secret keys InMemorySigner.fromSecretKey accepts
ValidKeys == { "edsk" }

Environments ==
  { [TEZOS_NETWORK |-> n, TEZOS_PRIVATE_KEY |-> k] :
      n \in NetworkValues, k \in KeyValues }

\* init().catch: console.error("Fatal", err); process.exit(1)
Fatal(s, err) == [s EXCEPT !.pc = "exited", !.fatal = <<err>>]

\* init from its entry to its first await: the network is looked up, the
\* toolkit is built and the key is read. The TezosToolkit constructor is
\* the library's: given an undefined rpcUrl it returns or throws.
InitStart ==
  LET networkName == IF IsSet(server.env.TEZOS_NETWORK)
                       THEN server.env.TEZOS_NETWORK[1]
                       ELSE "shadownet"
      network     == Lookup(networkName)
      named       == [server EXCEPT !.networkName = <<networkName>>,
                                    !.network = network]
  IN
  /\ server.pc = "start"
  /\ IF network = <<>>
       THEN server' = Fatal(named, "Invalid network")
       ELSE \E toolkitThrows \in IF network[1].rpcUrl = <<>> THEN BOOLEAN ELSE {FALSE} :
              server' =
                IF toolkitThrows
                  THEN Fatal(named, "TezosToolkit")
                ELSE IF ~IsSet(server.env.TEZOS_PRIVATE_KEY)
                  THEN Fatal([named EXCEPT !.toolkit = TRUE], "TEZOS_PRIVATE_KEY required")
                ELSE [named EXCEPT !.toolkit = TRUE, !.pc = "awaitSigner"]
  /\ UNCHANGED <<callVars, ledger, calls>>

\* InMemorySigner.fromSecretKey resolves: Tezos.setSignerProvider(signer),
\* then signer.publicKeyHash()
SignerLoaded ==
  /\ server.pc = "awaitSigner"
  /\ server.env.TEZOS_PRIVATE_KEY[1] \in ValidKeys
  /\ server' = [server EXCEPT !.signer = TRUE, !.pc = "awaitPublicKeyHash"]
  /\ UNCHANGED <<callVars, ledger, calls>>

\* InMemorySigner.fromSecretKey rejects a string that is no secret key
SignerRejected ==
  /\ server.pc = "awaitSigner"
  /\ server.env.TEZOS_PRIVATE_KEY[1] \notin ValidKeys
  /\ server' = Fatal(server, "fromSecretKey")
  /\ UNCHANGED <<callVars, ledger, calls>>

\* publicKeyHash resolves: the wallet address is known, the tools are
\* created and registered from here on
PublicKeyHashReturns ==
  /\ server.pc = "awaitPublicKeyHash"
  /\ server' = [server EXCEPT !.walletAddress = WalletAddress, !.pc = "register"]
  /\ UNCHANGED <<callVars, ledger, calls>>

\* server.registerTool(tool.name, tool.config, tool.handler), for the next
\* tool in the order of the code; after the seventh, server.connect(transport)
RegisterTool ==
  LET registered == Append(server.registered, ToolNames[Len(server.registered) + 1])
  IN
  /\ server.pc = "register"
  /\ server' = [server EXCEPT !.registered = registered,
                              !.pc = IF Len(registered) = Len(ToolNames)
                                       THEN "awaitConnect" ELSE "register"]
  /\ UNCHANGED <<callVars, ledger, calls>>

\* server.connect resolves: init returns
ConnectReturns ==
  /\ server.pc = "awaitConnect"
  /\ server' = [server EXCEPT !.connected = TRUE, !.pc = "started"]
  /\ UNCHANGED <<callVars, ledger, calls>>

\* server.connect rejects
ConnectRaises ==
  /\ server.pc = "awaitConnect"
  /\ server' = Fatal(server, "connect")
  /\ UNCHANGED <<callVars, ledger, calls>>

ServerInit ==
  /\ server \in { NewServer(env) : env \in Environments }
  /\ tool = "none" /\ pc = "start" /\ params = NoParams
  /\ maxPaymentMutez = 0
  /\ response = <<>> /\ parsedReqs = <<>> /\ paymentReqs = <<>>
  /\ amountMutez = NaN
  /\ balance = <<>> /\ operation = <<>> /\ blocks = 0
  /\ paymentProof = <<>> /\ requests = <<>> /\ events = <<>>
  /\ result = NoResult
  /\ address = Undef
  /\ ledger = 0
  /\ calls = <<>>

ServerNext ==
  \/ InitStart
  \/ SignerLoaded
  \/ SignerRejected
  \/ PublicKeyHashReturns
  \/ RegisterTool
  \/ ConnectReturns
  \/ ConnectRaises

ServerSpec == ServerInit /\ [][ServerNext]_vars

---------------------------------------------------------------------------
(* Concurrent calls of tezos_fetch_x402 on one wallet: each handler from    *)
(* its balance query to the end of its payment.  The MCP server runs a     *)
(* handler per request on one event loop, so handlers interleave at their  *)
(* awaits; the chain debits the wallet when it accepts a transfer.         *)

Calls == 1..NumCalls

\* Amounts (mutez) the concurrent calls are to pay, and wallet balances
RaceAmounts == { 100000, 1500000 }
RaceLedgers == { 199999, 200000, 1600000, 5000000 }

NewCall(a) ==
  [pc |-> "awaitBalance", amountMutez |-> a, balance |-> <<>>, outcome |-> "none"]

\* The transfers handed to the ledger client by the other calls and not yet
\* settled
RECURSIVE PendingOfOthers(_, _)
PendingOfOthers(c, S) ==
  IF S = {} THEN 0
  ELSE LET d == CHOOSE x \in S : TRUE
       IN  (IF d # c /\ calls[d].pc = "awaitTransfer" THEN calls[d].amountMutez ELSE 0)
           + PendingOfOthers(c, S \ {d})

\* Mutant: a call sees the balance net of the other calls' pending payments.
BalanceSeen_NetOfPending(c) == ledger - PendingOfOthers(c, Calls)

\* await Tezos.tz.getBalance(walletAddress): the chain's balance, whatever
\* the other handlers are doing
BalanceSeen(c) == ledger

RaceInit ==
  /\ tool = "none" /\ pc = "start" /\ params = NoParams
  /\ maxPaymentMutez = 0
  /\ response = <<>> /\ parsedReqs = <<>> /\ paymentReqs = <<>>
  /\ amountMutez = NaN
  /\ balance = <<>> /\ operation = <<>> /\ blocks = 0
  /\ paymentProof = <<>> /\ requests = <<>> /\ events = <<>>
  /\ result = NoResult
  /\ address = Undef
  /\ server = StartedServer
  /\ ledger \in RaceLedgers
  /\ calls \in [Calls -> { NewCall(a) : a \in RaceAmounts }]

\* getBalance resolves for call c: its balance gate, then its transfer call
CallBalanceReturns(c) ==
  /\ calls[c].pc = "awaitBalance"
  /\ LET b == BalanceSeen(c) IN
       calls' = [calls EXCEPT ![c] =
                   IF ~BalanceCovers(b, Num(calls[c].amountMutez))
                     THEN [@ EXCEPT !.balance = <<b>>, !.pc = "done",
                                    !.outcome = "InsufficientBalance"]
                     ELSE [@ EXCEPT !.balance = <<b>>, !.pc = "awaitTransfer"]]
  /\ UNCHANGED <<server, ledger, callVars>>

\* The chain accepts call c's transfer and confirms it: the wallet is debited.
CallTransferConfirmed(c) ==
  /\ calls[c].pc = "awaitTransfer"
  /\ ledger >= calls[c].amountMutez
  /\ ledger' = ledger - calls[c].amountMutez
  /\ calls' = [calls EXCEPT ![c] = [@ EXCEPT !.pc = "done", !.outcome = "Paid"]]
  /\ UNCHANGED <<server, callVars>>

\* transfer() or confirmation() rejects for call c
CallTransferFails(c) ==
  /\ calls[c].pc = "awaitTransfer"
  /\ calls' = [calls EXCEPT ![c] = [@ EXCEPT !.pc = "done",
                                               !.outcome = "PaymentExecutionFailed"]]
  /\ UNCHANGED <<server, ledger, callVars>>

RaceNext ==
  \/ \E c \in Calls : CallBalanceReturns(c)
  \/ \E c \in Calls : CallTransferConfirmed(c)
  \/ \E c \in Calls : CallTransferFails(c)

RaceSpec == RaceInit /\ [][RaceNext]_vars

---------------------------------------------------------------------------
(* Properties *)

Count(e) == Cardinality({ i \in 1..Len(events) : events[i] = e })

NoChainCall == Count("getBalance") = 0 /\ Count("transfer") = 0 /\ operation = <<>>

\* The initial response has been handled by tezos_fetch_x402
Handled == tool = "fetch" /\ response # <<>>

\* ... it was a 402 that yielded a requirement
Parsed == Handled /\ response[1].status = 402 /\ parsedReqs # <<>>

TheReq == paymentReqs[1]

\* XTZ in any letter case; a missing asset counts as XTZ
IsNativeAsset(a) ==
  \/ a = Undef
  \/ /\ Len(a) = 3
     /\ a[1] \in {"x", "X"} /\ a[2] \in {"t", "T"} /\ a[3] \in {"z", "Z"}

\* The gates ahead of the balance query hold for the requirement
PassesNetwork == TheReq.network # Undef /\ NetworkSupported(TheReq)
PassesLimit == ~ExceedsLimit(TheReq, maxPaymentMutez)

\* C1: a non-402 initial response is returned with its status, headers and
\* body unchanged, and no balance query, transfer or second request is made.
C1_NonPaymentPassThrough ==
  (Handled /\ response[1].status # 402) =>
     /\ Done
     /\ result.kind = "Response" /\ ~result.thrown
     /\ result.status = response[1].status
     /\ result.headers = response[1].headers
     /\ result.body = <<response[1].body>>
     /\ NoChainCall
     /\ Count("fetch") = 1 /\ Len(requests) = 1

C1_Witness ==
  /\ Handled /\ Done
  /\ response[1].status = 500
  /\ response[1].headers.xPaymentAddress = Addr_tz1
  /\ result.kind = "Response"

\* C2: one call submits at most one transfer and issues at most one retry;
\* a failed submission or confirmation ends the call, and a retried response
\* that is 402 again is returned without a second payment.
C2_AtMostOnePayment ==
  /\ Count("transfer") <= 1
  /\ Count("confirmation") <= 1
  /\ Count("fetch") <= 2
  /\ Len(requests) = Count("fetch")
  /\ (result.kind = "PaymentExecutionFailed" =>
        Done /\ Count("transfer") = 1 /\ Count("fetch") <= 1)
  /\ (result.kind = "Paid" => Done /\ Count("transfer") = 1 /\ Count("fetch") = 2)

C2_Witness ==
  /\ tool = "fetch" /\ Done
  /\ result.kind = "Paid" /\ result.status = 402
  /\ Count("transfer") = 1

\* The limit C3 states: floor(maxPayment x 1,000,000), 1 XTZ only when
\* maxPayment is omitted.
StatedLimit(maxPayment) ==
  IF maxPayment = <<>> THEN xtzToMutez(One) ELSE xtzToMutez(maxPayment[1])

\* C3: with autoRetry on a supported network, an amount above the limit
\* (floor(maxPayment x 1,000,000) for every maxPayment given, 0 included)
\* fails with PaymentLimitExceeded with no balance query and no transfer.
C3_LimitExceeded ==
  (/\ Parsed /\ params.autoRetry /\ PassesNetwork
   /\ NumGt(parseInt(TheReq.maxAmountRequired), Num(StatedLimit(params.maxPayment))))
  => /\ Done
     /\ result.kind = "PaymentLimitExceeded"
     /\ NoChainCall

\* C4: a transfer is submitted only if the balance read is at least the
\* amount plus 100000 mutez; a balance below that fails with
\* InsufficientBalance and no transfer.
C4_BalanceCoversPayment ==
  tool = "fetch" =>
    /\ (Count("transfer") > 0 =>
          /\ balance # <<>>
          /\ ~amountMutez.nan
          /\ balance[1] >= amountMutez.v + 100000)
    /\ ((balance # <<>> /\ ~amountMutez.nan /\ balance[1] < amountMutez.v + 100000) =>
          /\ Done
          /\ result.kind = "InsufficientBalance"
          /\ Count("transfer") = 0)

\* C5: a requirement naming an asset other than XTZ that passes the network,
\* autoRetry and limit gates fails with UnsupportedAsset with no balance
\* query and no transfer; no transfer is ever submitted for such a requirement.
C5_UnsupportedAsset ==
  /\ (/\ Parsed /\ params.autoRetry /\ PassesNetwork /\ PassesLimit
      /\ ~IsNativeAsset(TheReq.asset))
     => /\ Done
        /\ result.kind = "UnsupportedAsset"
        /\ NoChainCall
  /\ (tool = "fetch" /\ Count("transfer") > 0) => IsNativeAsset(TheReq.asset)

C5_Witness ==
  /\ Parsed /\ Done /\ params.autoRetry
  /\ TheReq.asset = <<"U","S","D","C">>
  /\ result.kind = "UnsupportedAsset"

\* C6: a requirement that passes the earlier gates and carries an expiry
\* (any number) earlier than the current time fails with PaymentExpired
\* before the balance is queried.
C6_Expired ==
  (/\ Parsed /\ params.autoRetry /\ PassesNetwork /\ PassesLimit
   /\ IsNativeAsset(TheReq.asset)
   /\ TheReq.expiry # <<>> /\ TheReq.expiry[1] < Now)
  => /\ Done
     /\ result.kind = "PaymentExpired"
     /\ NoChainCall

\* The gates ahead of the balance query, in the stated order, with what
\* each reports; TRUE where the requirement fails the gate.
GateOrder ==
  << [kind |-> "UnsupportedNetwork",   fails |-> ~NetworkSupported(TheReq)],
     [kind |-> "PaymentLimitExceeded", fails |-> ExceedsLimit(TheReq, maxPaymentMutez)],
     [kind |-> "UnsupportedAsset",     fails |-> AssetOf(TheReq) # Str_XTZ],
     [kind |-> "PaymentExpired",       fails |-> ExpiryPassed(TheReq, Now)],
     [kind |-> "InvalidAddress",       fails |-> ~ValidRecipient(TheReq)] >>

FailedGates == { g \in 1..Len(GateOrder) : GateOrder[g].fails }

\* C7: with autoRetry the gates are evaluated in the order network, limit,
\* asset, expiry, address, balance; the earliest failing gate is the one
\* reported and no later gate, the balance query included, is evaluated.
C7_GateOrder ==
  (Parsed /\ params.autoRetry /\ TheReq.network # Undef) =>
    /\ \A g \in FailedGates :
         (\A h \in FailedGates : g <= h) =>
            /\ Done
            /\ result.kind = GateOrder[g].kind
            /\ NoChainCall
    /\ (FailedGates = {} => Count("getBalance") = 1)
    /\ (result.kind = "InsufficientBalance" => FailedGates = {} /\ Count("transfer") = 0)

C7_Witness ==
  /\ Parsed /\ Done /\ params.autoRetry
  /\ result.kind = "PaymentLimitExceeded"
  /\ {2, 3, 4, 5} \subseteq FailedGates

C7_WitnessNetworkAndExpired ==
  /\ Parsed /\ Done /\ params.autoRetry
  /\ result.kind = "UnsupportedNetwork"
  /\ {1, 4} \subseteq FailedGates

\* C8 as stated: the network gate precedes the autoRetry decision, so an
\* unsupported network is reported whether autoRetry is true or false, and
\* the manual-pay instruction is returned only on a supported network.
C8_NetworkBeforeAutoRetry ==
  /\ (Parsed /\ TheReq.network # Undef /\ ~NetworkSupported(TheReq))
       => result.kind = "UnsupportedNetwork"
  /\ (Parsed /\ result.kind = "ManualPay") => PassesNetwork

\* C8 amended: the autoRetry decision precedes the network gate. With
\* autoRetry=false every parsed requirement is returned as a manual-pay
\* instruction whatever its network; an unsupported network is reported
\* exactly when autoRetry is true.
C8_AutoRetryBeforeNetwork ==
  /\ (Parsed /\ ~params.autoRetry) =>
        Done /\ result.kind = "ManualPay" /\ NoChainCall
  /\ (Parsed /\ params.autoRetry /\ TheReq.network # Undef /\ ~NetworkSupported(TheReq))
        => Done /\ result.kind = "UnsupportedNetwork" /\ NoChainCall
  /\ (tool = "fetch" /\ result.kind = "UnsupportedNetwork") => params.autoRetry

C8_Witness ==
  /\ Parsed /\ Done /\ ~params.autoRetry
  /\ TheReq.network = <<"e","t","h">>
  /\ result.kind = "ManualPay"

\* C9: with autoRetry=false a requirement on a supported network is returned
\* as a manual-pay instruction, not an error, with no balance query, transfer
\* or retry, whatever its amount, asset, expiry, address or the balance.
C9_ManualPay ==
  (Parsed /\ ~params.autoRetry /\ PassesNetwork) =>
    /\ Done
    /\ result.kind = "ManualPay" /\ ~result.thrown
    /\ result.paymentRequirements = paymentReqs
    /\ NoChainCall
    /\ balance = <<>>
    /\ Count("fetch") = 1 /\ Len(requests) = 1

C9_Witness ==
  /\ Parsed /\ Done /\ ~params.autoRetry /\ PassesNetwork
  /\ result.kind = "ManualPay"
  /\ FailedGates = {2, 3, 4, 5}

\* A proof value has reached the caller or the wire
ProofSent ==
  \/ result.xPaymentHeader # <<>>
  \/ \E i \in 1..Len(requests) :
       /\ "X-PAYMENT" \in DOMAIN requests[i].headers
       /\ \/ "X-PAYMENT" \notin DOMAIN params.headers
          \/ requests[i].headers["X-PAYMENT"] # params.headers["X-PAYMENT"]

\* C10: in both tools a proof is built, returned or sent only after the
\* transfer was submitted and its confirmation to depth 3 completed; where
\* submission or confirmation fails there is no proof.
C10_ProofAfterConfirmation ==
  /\ (paymentProof # <<>> \/ ProofSent) =>
        /\ paymentProof # <<>>
        /\ Count("transfer") = 1 /\ Count("confirmation") = 1
        /\ operation # <<>> /\ operation[1].hash # Undef
        /\ blocks >= 3
        /\ pc \in {"awaitRetry", "done"}
        /\ result.kind # "PaymentExecutionFailed"
  /\ (result.kind = "PaymentExecutionFailed" => paymentProof = <<>> /\ ~ProofSent)
  /\ (result.kind \in {"PaymentSucceeded", "PaymentMadeRetryFailed"} =>
        result.xPaymentHeader = <<XPaymentHeader(paymentProof[1])>>)

C10_WitnessFetch ==
  /\ tool = "fetch" /\ pc = "awaitRetry"
  /\ paymentProof # <<>>
  /\ requests[2].headers["X-PAYMENT"] = XPaymentHeader(paymentProof[1])

C10_WitnessPayFailed ==
  /\ tool = "pay" /\ Done
  /\ result.kind = "PaymentExecutionFailed" /\ result.cause = "confirmation"
  /\ blocks = 2

\* The retried request was issued and fetch() rejected: the call is over
\* with two requests sent and only the initial response received.
RetryTransportFailed ==
  tool = "fetch" /\ Done /\ Len(requests) = 2 /\ Len(response) = 1

TransferOrConfirmationFailed ==
  /\ tool = "fetch" /\ Done /\ events # <<>>
  /\ events[Len(events)] \in {"transfer", "confirmation"}

\* C12: when the submission of the transfer or its confirmation fails, the
\* fetch call ends with a returned PaymentExecutionFailed result that carries
\* the error of the call that failed and the requirement being paid; no proof
\* is built and no retry request is issued.
C12_PaymentExecutionFailed ==
  TransferOrConfirmationFailed =>
    /\ result.kind = "PaymentExecutionFailed" /\ ~result.thrown
    /\ result.status = 402
    /\ result.cause = events[Len(events)]
    /\ parsedReqs # <<>>
    /\ result.paymentRequirements = <<DefaultResource(parsedReqs[1], params.url)>>
    /\ paymentProof = <<>> /\ ~ProofSent
    /\ Len(requests) = 1 /\ Count("fetch") = 1
    /\ Count("transfer") = 1

C12_Witness ==
  /\ TransferOrConfirmationFailed
  /\ events[Len(events)] = "confirmation"
  /\ result.cause = "confirmation"
  /\ operation[1].hash \in OpHashes
  /\ blocks = 1

C12_WitnessTransfer ==
  /\ TransferOrConfirmationFailed
  /\ events[Len(events)] = "transfer"
  /\ result.cause = "transfer"

\* C13: no failure of a fetch call is thrown out of the handler; every one
\* is a returned result.
C13_NeverThrown ==
  tool = "fetch" => ~result.thrown

\* The initial response is a 402 from which neither the body nor the headers
\* give a requirement: the body is not JSON or has neither field, and the
\* headers lack the address or the amount.
NothingUsable ==
  /\ Handled /\ response[1].status = 402
  /\ \/ ~response[1].body.json
     \/ /\ response[1].body.accepts = <<>>
        /\ response[1].body.paymentRequirements = <<>>
  /\ \/ response[1].headers.xPaymentAddress \in {Undef, <<>>}
     \/ response[1].headers.xPaymentAmount \in {Undef, <<>>}

\* C14: a 402 without a usable requirement in body or headers ends the call
\* with UnparsablePaymentRequirement and the raw body, with no balance query,
\* no transfer and no retry request.
C14_Unparsable ==
  NothingUsable =>
    /\ Done
    /\ result.kind = "UnparsablePaymentRequirement" /\ ~result.thrown
    /\ result.body = <<response[1].body>>
    /\ parsedReqs = <<>> /\ paymentReqs = <<>>
    /\ NoChainCall
    /\ Len(requests) = 1 /\ Count("fetch") = 1 /\ Len(response) = 1

C14_Witness ==
  /\ NothingUsable
  /\ response[1].body.json
  /\ response[1].headers.xPaymentAddress = Addr_tz1
  /\ response[1].headers.xPaymentAmount = Undef
  /\ result.kind = "UnparsablePaymentRequirement"
  /\ result.body[1].text = "{}"

\* C15: a 402 whose body is not JSON, or is JSON with neither an options
\* list nor a single option, and whose headers carry an address and an
\* amount, yields the requirement built from the headers.
C15_HeaderFallback ==
  (/\ Handled /\ response[1].status = 402
   /\ \/ ~response[1].body.json
      \/ /\ response[1].body.accepts = <<>>
         /\ response[1].body.paymentRequirements = <<>>
   /\ Truthy(response[1].headers.xPaymentAddress)
   /\ Truthy(response[1].headers.xPaymentAmount)) =>
     /\ result.kind # "UnparsablePaymentRequirement"
     /\ parsedReqs # <<>>
     /\ parsedReqs[1].payTo = response[1].headers.xPaymentAddress
     /\ parsedReqs[1].maxAmountRequired = response[1].headers.xPaymentAmount

\* The network identifier contains "tezos" in some letter case
ContainsTezos(nw) ==
  \E i \in 1..(Len(nw) - 4) :
    /\ nw[i] \in {"t", "T"} /\ nw[i + 1] \in {"e", "E"} /\ nw[i + 2] \in {"z", "Z"}
    /\ nw[i + 3] \in {"o", "O"} /\ nw[i + 4] \in {"s", "S"}

\* The initial 402 body is JSON with a non-empty options list in which
\* every option names its network
HasOptionsList ==
  /\ Handled /\ response[1].status = 402
  /\ response[1].body.json
  /\ Len(response[1].body.accepts) > 0
  /\ \A i \in 1..Len(response[1].body.accepts) :
       response[1].body.accepts[i].network # Undef

C16_WitnessNoTezos ==
  /\ HasOptionsList
  /\ \A i \in 1..Len(response[1].body.accepts) :
       ~ContainsTezos(response[1].body.accepts[i].network)
  /\ response[1].body.paymentRequirements # <<>>
  /\ parsedReqs = <<response[1].body.accepts[1]>>

C16_WitnessTwoTezos ==
  /\ HasOptionsList
  /\ Len(response[1].body.accepts) = 2
  /\ ContainsTezos(response[1].body.accepts[1].network)
  /\ ContainsTezos(response[1].body.accepts[2].network)
  /\ response[1].body.accepts[1] # response[1].body.accepts[2]
  /\ parsedReqs = <<response[1].body.accepts[1]>>

\* C18 as stated: the requirement the handler works on, and the one it
\* reports, is the parsed one in every field.
C18_NeverMutated ==
  Parsed =>
    /\ paymentReqs = parsedReqs
    /\ (result.paymentRequirements # <<>> => result.paymentRequirements = parsedReqs)

\* C18, amended: only the resource may differ from the parsed value, and
\* only by an absent or empty resource being replaced by the request URL;
\* every other field is the parser's, and the requirement reported to the
\* caller is that requirement.
C18_OnlyResourceDefaulted ==
  Parsed =>
    /\ paymentReqs # <<>>
    /\ [TheReq EXCEPT !.resource = parsedReqs[1].resource] = parsedReqs[1]
    /\ TheReq.resource = IF parsedReqs[1].resource \in {Undef, <<>>}
                           THEN params.url
                           ELSE parsedReqs[1].resource
    /\ (result.paymentRequirements # <<>> => result.paymentRequirements = paymentReqs)

C18_Witness ==
  /\ Parsed /\ Done
  /\ parsedReqs[1].resource = <<>>
  /\ TheReq.resource = Url
  /\ result.paymentRequirements = paymentReqs

C18_WitnessKept ==
  /\ Parsed /\ Done
  /\ parsedReqs[1].resource = <<"/","r">>
  /\ result.paymentRequirements = parsedReqs

\* C19: the scheme and the network of every proof built are those of the
\* requirement paid (an absent scheme standing for "exact").
C19_ProofCopiesSchemeAndNetwork ==
  paymentProof # <<>> =>
    /\ paymentProof[1].network = TheReq.network
    /\ paymentProof[1].scheme =
         IF TheReq.scheme = Undef THEN Str_exact ELSE TheReq.scheme

\* C20: the fetch call transfers the requirement's maxAmountRequired, as a
\* number of mutez, to the requirement's payTo; the proof's authorization
\* and the payment summary name that wallet, recipient, amount and the hash
\* of that transfer.
C20_TransferProofSummaryAgree ==
  (tool = "fetch" /\ operation # <<>>) =>
    /\ operation[1].to = TheReq.payTo
    /\ operation[1].mutez
    /\ numToString(operation[1].amount) = TheReq.maxAmountRequired
    /\ (paymentProof # <<>> =>
          /\ operation[1].hash # Undef
          /\ paymentProof[1].payload.authorization =
               [from |-> WalletAddress, to |-> operation[1].to,
                amount |-> TheReq.maxAmountRequired, asset |-> Str_XTZ,
                opHash |-> operation[1].hash])
    /\ (result.kind = "Paid" =>
          /\ result.amountMutez = operation[1].amount
          /\ result.recipient = operation[1].to
          /\ result.opHash = operation[1].hash)

\* C21 as stated: the retry has the URL, method and body of the initial
\* request, every header of the initial request with its value, and the
\* X-PAYMENT header with the base64 of the proof's JSON.
C21_RetryIsOriginalPlusProof ==
  Len(requests) = 2 =>
    /\ requests[2].url = requests[1].url
    /\ requests[2].method = requests[1].method
    /\ requests[2].body = requests[1].body
    /\ \A k \in DOMAIN requests[1].headers :
         /\ k \in DOMAIN requests[2].headers
         /\ requests[2].headers[k] = requests[1].headers[k]
    /\ "X-PAYMENT" \in DOMAIN requests[2].headers
    /\ requests[2].headers["X-PAYMENT"] = [base64 |-> [json |-> paymentProof[1]]]

\* C21, amended: the retry has the URL, method and body of the initial
\* request (the caller's), every header of the initial request other than
\* X-PAYMENT with its value, no other header, and X-PAYMENT set to the
\* base64 of the proof's JSON, in place of an X-PAYMENT value the caller
\* had passed.
C21_RetryKeepsAllButProofHeader ==
  Len(requests) = 2 =>
    /\ requests[1].url = params.url /\ requests[2].url = params.url
    /\ requests[1].method = params.method /\ requests[2].method = params.method
    /\ requests[1].body = params.body /\ requests[2].body = params.body
    /\ DOMAIN requests[2].headers = DOMAIN requests[1].headers \cup {"X-PAYMENT"}
    /\ \A k \in DOMAIN requests[1].headers \ {"X-PAYMENT"} :
         requests[2].headers[k] = requests[1].headers[k]
    /\ \A k \in DOMAIN params.headers : requests[1].headers[k] = params.headers[k]
    /\ paymentProof # <<>>
    /\ requests[2].headers["X-PAYMENT"] = [base64 |-> [json |-> paymentProof[1]]]

C21_Witness ==
  /\ Len(requests) = 2
  /\ params.method = "POST"
  /\ requests[2].headers["Authorization"] = [text |-> "Bearer k"]
  /\ requests[2].headers["Accept"] = [text |-> "text/plain"]
  /\ requests[1].headers["X-PAYMENT"] = [base64 |-> [json |-> EarlierProof]]
  /\ requests[2].headers["X-PAYMENT"] # requests[1].headers["X-PAYMENT"]
  /\ requests[2].body = <<"q">>

\* The phase of the spec's state machine a handler position belongs to:
\* 1 Requesting, 3 Validating (2, the payment decision, and the gates ahead
\* of the balance query are inside the step that handles the response),
\* 4 Paying, 5 Retrying, 6 Done or Failed.
PhaseOf(p) ==
  CASE p = "start"             -> 0
    [] p = "awaitResponse"     -> 1
    [] p = "awaitBalance"      -> 3
    [] p = "awaitTransfer"     -> 4
    [] p = "awaitConfirmation" -> 4
    [] p = "awaitRetry"        -> 5
    [] p = "done"              -> 6

CallOrder == <<"fetch", "getBalance", "transfer", "confirmation", "fetch">>

GateKinds ==
  {"UnsupportedNetwork", "PaymentLimitExceeded", "UnsupportedAsset",
   "PaymentExpired", "InvalidAddress", "InsufficientBalance", "ManualPay",
   "UnparsablePaymentRequirement"}

\* C22: a fetch call moves through its phases forward only; the external
\* calls happen in the order request, balance query, transfer, confirmation,
\* retry, each at most once, so no balance query follows the transfer and
\* the retry follows the confirmation to depth 3; a gate result is produced
\* only before any transfer; after the terminal outcome nothing changes.
C22_PhaseOrder ==
  /\ [](tool = "fetch" =>
          /\ Len(events) <= Len(CallOrder)
          /\ events = SubSeq(CallOrder, 1, Len(events))
          /\ Len(requests) = Count("fetch")
          /\ (Len(requests) = 2 => blocks >= CONFIRMATIONS_TO_WAIT /\ paymentProof # <<>>)
          /\ (result.kind \in GateKinds => Count("transfer") = 0 /\ Done)
          /\ (pc = "awaitBalance" => Count("transfer") = 0)
          /\ (pc \in {"start", "awaitResponse"} => events = SubSeq(CallOrder, 1, PhaseOf(pc))))
  /\ [][tool = "fetch" =>
          /\ pc # "done"
          /\ PhaseOf(pc') >= PhaseOf(pc)
          /\ (PhaseOf(pc') = PhaseOf(pc) =>
                \/ pc = "awaitTransfer" /\ pc' = "awaitConfirmation"
                \/ pc = "awaitConfirmation" /\ pc' = pc /\ events' = events)
          /\ (result # NoResult => UNCHANGED result)]_vars

C22_Witness ==
  /\ tool = "fetch" /\ Done
  /\ result.kind = "Paid"
  /\ events = CallOrder
  /\ blocks = CONFIRMATIONS_TO_WAIT

\* The address shape of the chain: tz1, tz2, tz3 or KT1 and then exactly 33
\* letters or digits
HasAddressShape(a) ==
  /\ a # Undef
  /\ Len(a) = 3 + 33
  /\ <<a[1], a[2], a[3]>> \in
       { <<"t","z","1">>, <<"t","z","2">>, <<"t","z","3">>, <<"K","T","1">> }
  /\ \A i \in 4..Len(a) : a[i] \in UpperSet \cup LowerSet \cup DigitSet

\* The requirement passes the network, limit, asset and expiry gates as the
\* spec states them
PassesGatesBeforeAddress ==
  /\ TheReq.network # Undef /\ ContainsTezos(TheReq.network)
  /\ ~NumGt(parseInt(TheReq.maxAmountRequired), Num(StatedLimit(params.maxPayment)))
  /\ IsNativeAsset(TheReq.asset)
  /\ (TheReq.expiry = <<>> \/ TheReq.expiry[1] >= Now)

\* C23: every transfer of a fetch call goes to a recipient of the chain's
\* address shape; a requirement that passes the earlier gates and whose
\* payTo has another shape ends with InvalidAddress before the balance is
\* queried.
C23_RecipientShape ==
  /\ (tool = "fetch" /\ operation # <<>>) => HasAddressShape(operation[1].to)
  /\ (/\ Parsed /\ params.autoRetry
      /\ PassesGatesBeforeAddress
      /\ ~HasAddressShape(TheReq.payTo)) =>
        /\ Done
        /\ result.kind = "InvalidAddress" /\ ~result.thrown
        /\ events = <<"fetch">>
        /\ NoChainCall

C23_Witness ==
  /\ Parsed /\ params.autoRetry
  /\ PassesGatesBeforeAddress
  /\ TheReq.payTo = Addr_short
  /\ result.kind = "InvalidAddress"

C23_WitnessTransfer ==
  /\ tool = "fetch" /\ operation # <<>>
  /\ operation[1].to = Addr_KT1
  /\ operation[1].hash # Undef

\* C24: every fetch call reaches its terminal outcome, and a call that has
\* submitted the transfer ends with a returned result that reports the
\* failed payment or the committed one.
C24_EndsWithPaymentReport ==
  (tool = "fetch") ~>
     /\ Done
     /\ (Count("transfer") = 1 =>
           /\ ~result.thrown
           /\ result.kind \in {"PaymentExecutionFailed", "Paid", "PaymentMadeRetryFailed"})

\* Call c has handed its transfer to the ledger client
Submitted(c) == calls[c].pc = "awaitTransfer" \/ calls[c].outcome \in {"Paid", "PaymentExecutionFailed"}

\* C25: concurrent calls are not serialized.  A call waiting for its balance
\* can always proceed, whatever the other calls are doing; the balance it
\* reads is the wallet's whole balance, with nothing set aside for the
\* transfers other calls have pending; and it submits its transfer exactly
\* when that balance covers its own amount plus the reserve.
C25_NotSerialized ==
  /\ [](\A c \in Calls :
          calls[c].pc = "awaitBalance" => ENABLED CallBalanceReturns(c))
  /\ [][\A c \in Calls :
          (calls[c].pc = "awaitBalance" /\ calls'[c].pc # "awaitBalance") =>
             /\ calls'[c].balance = <<ledger>>
             /\ (calls'[c].pc = "awaitTransfer"
                   <=> ledger >= calls[c].amountMutez + FEE_RESERVE)
             /\ (calls'[c].pc # "awaitTransfer" => calls'[c].outcome = "InsufficientBalance")]_vars

\* Two calls read the same balance, both passed the gate and both submitted
\* a transfer, although the balance covers one payment and the reserve only.
C25_Witness ==
  \E c, d \in Calls :
    /\ c # d
    /\ calls[c].pc = "awaitTransfer" /\ calls[d].pc = "awaitTransfer"
    /\ calls[c].balance = calls[d].balance
    /\ calls[c].balance[1] >= calls[c].amountMutez + FEE_RESERVE
    /\ calls[d].balance[1] >= calls[d].amountMutez + FEE_RESERVE
    /\ calls[c].balance[1] < calls[c].amountMutez + calls[d].amountMutez + FEE_RESERVE

\* ... and the chain accepted both, leaving less than the reserve
C25_WitnessBothPaid ==
  \E c, d \in Calls :
    /\ c # d
    /\ calls[c].outcome = "Paid" /\ calls[d].outcome = "Paid"
    /\ calls[c].balance = calls[d].balance
    /\ ledger < FEE_RESERVE

\* C27: once the transfer is confirmed, whatever the retry brings (a
\* transport failure, a non-2xx status, an X-PAYMENT-RESPONSE header that is
\* not base64 of JSON), the fetch call returns a result with the hash of the
\* transfer.
C27_PaidOutcomeCarriesHash ==
  (tool = "fetch" /\ Done /\ paymentProof # <<>>) =>
    /\ ~result.thrown
    /\ result.paymentSucceeded
    /\ result.opHash # Undef
    /\ result.opHash = operation[1].hash

\* A decimal integer string: one digit or more, and nothing else
IsDecimalString(str) ==
  /\ str # Undef
  /\ Len(str) > 0
  /\ \A i \in 1..Len(str) : str[i] \in DigitSet

\* C28: every transfer submitted by either tool has a well-defined,
\* non-negative whole amount, and is for a requirement whose
\* maxAmountRequired is a decimal integer string.
C28_TransferAmountWellDefined ==
  operation # <<>> =>
    /\ ~operation[1].amount.nan
    /\ operation[1].amount.v >= 0
    /\ IsDecimalString(TheReq.maxAmountRequired)

\* C29: a fetch call submits a transfer only for a requirement whose scheme
\* is "exact" or absent.
C29_OnlyExactSchemePaid ==
  (tool = "fetch" /\ operation # <<>>) =>
    TheReq.scheme \in {Undef, <<"e","x","a","c","t">>}

\* C30: tezos_pay_x402 transfers at most maxAmountRequired: an override
\* whose conversion to mutez exceeds it raises before any balance query or
\* transfer; without an override the transfer is of maxAmountRequired, with
\* an accepted override it is of the converted override.
C30_PayAtMostMaximum ==
  tool = "pay" =>
    LET req      == params.paymentRequirements[1]
        maxMutez == parseInt(req.maxAmountRequired)
        override == params.amount
    IN  /\ (operation # <<>> =>
              /\ ~operation[1].amount.nan /\ ~maxMutez.nan
              /\ operation[1].amount.v <= maxMutez.v)
        /\ ((/\ pc # "start" /\ override # <<>>
             /\ NumGt(Num((override[1].n * 1000000) \div override[1].d), maxMutez)) =>
              /\ Done /\ result.thrown
              /\ events = <<>> /\ operation = <<>>)
        /\ ((operation # <<>> /\ override = <<>>) => operation[1].amount = maxMutez)
        /\ ((operation # <<>> /\ override # <<>>) =>
              operation[1].amount = Num((override[1].n * 1000000) \div override[1].d))

\* A payment limit that the requirement's amount does not exceed
SufficientLimit(req) ==
  IF parseInt(req.maxAmountRequired).nan THEN 0 ELSE parseInt(req.maxAmountRequired).v

\* tezos_fetch_x402 with autoRetry and a sufficient limit got a requirement
\* that names its network
FetchWouldPay ==
  /\ Parsed /\ params.autoRetry
  /\ TheReq.network # Undef
  /\ PassesLimit

\* tezos_pay_x402 was called without an override and has passed its entry
PayWithoutOverride == tool = "pay" /\ params.amount = <<>> /\ pc # "start"

\* C31: the manual and the automatic payment path agree. A fetch call with
\* autoRetry and a sufficient limit queries the balance exactly when the
\* gates of tezos_pay_x402 (no override) pass for the same requirement, and
\* submits exactly when the balance also covers pay's amount plus the
\* reserve; its transfer has pay's recipient and amount and its proof is
\* the one pay builds for the same hash. Conversely a pay call without an
\* override queries the balance exactly when the gates of fetch pass, and
\* its transfer and proof are those of fetch.
C31_PathsAgree ==
  /\ FetchWouldPay =>
       LET r   == ApplySchema(TheReq)
           amt == PayAmount(r, <<>>)
       IN  /\ (Count("getBalance") = 1) <=> (PayGate(r, <<>>, Now) = "ok")
           /\ balance # <<>> =>
                ((operation # <<>>) <=> BalanceCovers(balance[1], amt))
           /\ operation # <<>> =>
                /\ operation[1].to = r.payTo
                /\ operation[1].amount = amt
                /\ operation[1].mutez
           /\ paymentProof # <<>> =>
                paymentProof[1] = PayProof(r, amt, operation[1].hash)
  /\ PayWithoutOverride =>
       LET r   == params.paymentRequirements[1]
           amt == parseInt(r.maxAmountRequired)
       IN  /\ (Count("getBalance") = 1) <=>
                (FetchGate(r, SufficientLimit(r), Now) = "ok")
           /\ balance # <<>> =>
                ((operation # <<>>) <=> BalanceCovers(balance[1], amt))
           /\ operation # <<>> =>
                /\ operation[1].to = r.payTo
                /\ operation[1].amount = amt
                /\ operation[1].mutez
           /\ paymentProof # <<>> =>
                paymentProof[1] = BuildProof(r, amt, operation[1].hash)

\* a fetch call paid and built its proof
C31_Witness == FetchWouldPay /\ paymentProof # <<>>

\* a pay call without an override paid and built its proof
C31_WitnessPay == PayWithoutOverride /\ paymentProof # <<>>

\* both paths refuse: an expired offer stops fetch, and would stop pay
C31_WitnessRefused ==
  /\ FetchWouldPay /\ Done /\ result.kind = "PaymentExpired"
  /\ PayGate(ApplySchema(TheReq), <<>>, Now) = "PaymentExpired"

\* The value-moving wallet tools
ValueTools == {"send", "swap", "fa2"}

\* KT1 followed by 33 letters or digits
HasContractShape(a) == HasAddressShape(a) /\ a[1] = "K" /\ a[2] = "T" /\ a[3] = "1"

\* floor(x * 1,000,000) for the amount n/d
MutezOf(x) == (x.n * 1000000) \div x.d

\* The inputs of the call are valid, as each tool requires
InputsValid ==
  CASE tool = "send" -> HasAddressShape(params.toAddress) /\ params.amount.n > 0
    [] tool = "swap" -> HasContractShape(params.swapContract) /\ params.xtzAmount.n > 0
    [] tool = "fa2"  -> /\ HasContractShape(params.tokenAddress)
                        /\ HasAddressShape(params.to)
                        /\ params.amount.n > 0

\* The XTZ balance the call needs
BalanceNeeded ==
  CASE tool = "send" -> MutezOf(params.amount) + 100000
    [] tool = "swap" -> MutezOf(params.xtzAmount) + 500000
    [] tool = "fa2"  -> 100000

\* The call has submitted an operation to the chain
OperationSubmitted ==
  operation # <<>> \/ Count("transfer") > 0 \/ Count("send") > 0

\* C32: tezos_send_xtz, tezos_swap_xtz_to_token and tezos_transfer_fa2 submit
\* an operation only with valid inputs and a balance of at least the needed
\* amount; with an invalid input the call raises an error before any chain
\* interaction, and with a balance below the needed amount it raises an error
\* and the balance query is its only chain interaction.
C32_ChecksBeforeOperation ==
  tool \in ValueTools =>
    /\ OperationSubmitted =>
         InputsValid /\ balance # <<>> /\ balance[1] >= BalanceNeeded
    /\ (pc # "start" /\ ~InputsValid) =>
         Done /\ result.thrown /\ events = <<>> /\ operation = <<>>
    /\ (balance # <<>> /\ balance[1] < BalanceNeeded) =>
         Done /\ result.thrown /\ events = <<"getBalance">> /\ operation = <<>>

\* a transfer was submitted from a balance of exactly amount plus reserve
C32_Witness ==
  /\ tool = "send" /\ Count("transfer") = 1
  /\ balance = <<200000>> /\ MutezOf(params.amount) = 100000

\* a swap stopped at the balance check, one mutez short
C32_WitnessRefused ==
  /\ tool = "swap" /\ Done /\ result.kind = "InsufficientBalance"
  /\ balance = <<599999>> /\ MutezOf(params.xtzAmount) = 100000

\* a token transfer stopped at its recipient's shape
C32_WitnessInvalid ==
  /\ tool = "fa2" /\ Done /\ result.kind = "InvalidRecipient"
  /\ HasContractShape(params.tokenAddress)

\* The tools that move value: the three wallet tools and tezos_pay_x402
MovingTools == ValueTools \cup {"pay"}

\* The call returned a success report
ReportsSuccess == ~result.thrown /\ (result.success \/ result.paymentSucceeded)

\* The calls that submit an operation, as the call made them
Submissions == Count("transfer") + Count("send")

\* C33: a value-moving tool (send_xtz, swap, transfer_fa2, pay_x402) reports
\* success only with the hash of an operation it submitted and after that
\* operation's confirmation to depth 3 completed; a call whose submission or
\* confirmation failed ends in a raised error, without a hash and without a
\* success report; every finished call raised an error or reported success;
\* no call submits more than one operation.
C33_SuccessAfterConfirmation ==
  tool \in MovingTools =>
    /\ ReportsSuccess =>
         /\ Done
         /\ Submissions = 1 /\ Count("confirmation") = 1
         /\ operation # <<>> /\ operation[1].hash # Undef
         /\ result.opHash = operation[1].hash
         /\ blocks >= 3
    /\ (Done /\ result.cause \in {"transfer", "send", "confirmation"}) =>
         result.thrown /\ ~ReportsSuccess /\ result.opHash = Undef
    /\ Done => (result.thrown \/ ReportsSuccess)
    /\ Submissions <= 1

\* a swap reported success after the third confirmation
C33_Witness ==
  tool = "swap" /\ ReportsSuccess /\ blocks = 3 /\ result.opHash # Undef

\* a token transfer was injected and its confirmation failed
C33_WitnessConfirmationFailed ==
  /\ tool = "fa2" /\ Done /\ result.cause = "confirmation"
  /\ operation # <<>> /\ operation[1].hash # Undef /\ result.thrown

\* a transfer of tezos_send_xtz was rejected at submission
C33_WitnessSubmissionFailed ==
  tool = "send" /\ Done /\ result.cause = "transfer" /\ result.thrown

\* The send of a swap or token transfer was rejected
SendRejected == tool \in {"swap", "fa2"} /\ Done /\ result.cause = "send"

\* The texts by which an error names its kind
KindTexts ==
  IF tool = "swap"
    THEN { Msg_SwapPaused, Msg_SwapLiquidity }
    ELSE { Msg_TokenBalance, Msg_TokenUndefined(params.tokenId), Msg_NotOperator }

\* The kinds the raised error names
KindsReported == { k \in KindTexts : includes(result.message, k) }

\* The rejection message has marker m
Has(m) == includes(result.raw, m)

\* C34 as stated: each marker in the message of a rejected send yields its
\* kind of error: paused and insufficient liquidity for a swap, insufficient
\* token balance, undefined token id and missing authorization for a token
\* transfer; exactly one kind is reported and no confirmation is waited for.
C34_EachMarkerReported ==
  SendRejected =>
    /\ result.thrown
    /\ Count("confirmation") = 0
    /\ (tool = "swap" /\ Has(Str_paused)) => Msg_SwapPaused \in KindsReported
    /\ (tool = "swap" /\ Has(Str_FA2_INSUFFICIENT_BALANCE)) =>
         Msg_SwapLiquidity \in KindsReported
    /\ (tool = "fa2" /\ Has(Str_FA2_INSUFFICIENT_BALANCE)) =>
         Msg_TokenBalance \in KindsReported
    /\ (tool = "fa2" /\ Has(Str_FA2_TOKEN_UNDEFINED)) =>
         Msg_TokenUndefined(params.tokenId) \in KindsReported
    /\ (tool = "fa2" /\ Has(Str_FA2_NOT_OPERATOR)) =>
         Msg_NotOperator \in KindsReported
    /\ (\E m \in { Str_paused, Str_FA2_INSUFFICIENT_BALANCE } : tool = "swap" /\ Has(m)) =>
         Cardinality(KindsReported) = 1
    /\ (\E m \in { Str_FA2_INSUFFICIENT_BALANCE, Str_FA2_TOKEN_UNDEFINED,
                     Str_FA2_NOT_OPERATOR } : tool = "fa2" /\ Has(m)) =>
         Cardinality(KindsReported) = 1

\* C34, amended: the first marker the message has, in the order paused,
\* FA2_INSUFFICIENT_BALANCE for a swap and FA2_INSUFFICIENT_BALANCE,
\* FA2_TOKEN_UNDEFINED, FA2_NOT_OPERATOR for a token transfer, decides the
\* kind of error; that kind alone is reported, a message without a marker
\* reports none, and no confirmation is waited for.
C34_FirstMarkerReported ==
  SendRejected =>
    /\ result.thrown
    /\ Count("confirmation") = 0
    /\ tool = "swap" =>
         KindsReported =
           IF Has(Str_paused) THEN { Msg_SwapPaused }
           ELSE IF Has(Str_FA2_INSUFFICIENT_BALANCE) THEN { Msg_SwapLiquidity }
           ELSE {}
    /\ tool = "fa2" =>
         KindsReported =
           IF Has(Str_FA2_INSUFFICIENT_BALANCE) THEN { Msg_TokenBalance }
           ELSE IF Has(Str_FA2_TOKEN_UNDEFINED)
             THEN { Msg_TokenUndefined(params.tokenId) }
           ELSE IF Has(Str_FA2_NOT_OPERATOR) THEN { Msg_NotOperator }
           ELSE {}

\* a swap was rejected with both markers and reports a paused contract
C34_Witness ==
  /\ SendRejected /\ tool = "swap"
  /\ Has(Str_paused) /\ Has(Str_FA2_INSUFFICIENT_BALANCE)
  /\ KindsReported = { Msg_SwapPaused }

\* a token transfer was rejected for a missing authorization
C34_WitnessNotOperator ==
  /\ SendRejected /\ tool = "fa2"
  /\ Has(Str_FA2_NOT_OPERATOR) /\ ~Has(Str_FA2_TOKEN_UNDEFINED)
  /\ KindsReported = { Msg_NotOperator }

\* The query tools
QueryTools == {"getBalance", "getTokenBalance"}

\* The chain calls that read
ReadCalls == {"getBalance", "contract.at", "storage", "ledger.get", "executeView"}

\* The address argument of the query: address for the balance, owner for
\* the token balance
AddressArgument == IF tool = "getBalance" THEN params.address ELSE params.owner

\* An address was passed: the argument is there and is not the empty string
Given(a) == a # Undef /\ Len(a) > 0

\* An address of the call is malformed
MalformedAddress ==
  \/ Given(AddressArgument) /\ ~HasAddressShape(AddressArgument)
  \/ tool = "getTokenBalance" /\ ~HasContractShape(params.tokenAddress)

\* C35: tezos_get_balance and tezos_get_token_balance only read: they submit
\* no transfer and no contract call; a call with a malformed address raises
\* an error before any chain interaction; the address queried is the one
\* passed, and the wallet's address when none is passed.
C35_QueriesAreReadOnly ==
  (tool \in QueryTools /\ pc # "start") =>
    /\ operation = <<>>
    /\ \A i \in 1..Len(events) : events[i] \in ReadCalls
    /\ MalformedAddress => Done /\ result.thrown /\ events = <<>>
    /\ address = IF Given(AddressArgument) THEN AddressArgument ELSE WalletAddress
    /\ (Done /\ ~result.thrown) => result.address = address

\* a token balance was read for the wallet, through the ledger and the view
C35_Witness ==
  /\ tool = "getTokenBalance" /\ Done /\ ~result.thrown
  /\ params.owner = Undef /\ result.address = WalletAddress
  /\ Count("ledger.get") = 2 /\ Count("executeView") = 1

\* a balance query for a malformed address was refused
C35_WitnessMalformed ==
  /\ tool = "getBalance" /\ Done /\ result.kind = "InvalidAddress"
  /\ params.address = Addr_short /\ events = <<>>

\* The networks the server supports
SupportedNetworks == {"mainnet", "ghostnet", "shadownet"}

\* The network TEZOS_NETWORK names: shadownet when it is unset or empty
NetworkNamed ==
  IF server.env.TEZOS_NETWORK \in {<<>>, <<"">>}
    THEN "shadownet"
    ELSE server.env.TEZOS_NETWORK[1]

\* TEZOS_PRIVATE_KEY is present
KeyPresent == server.env.TEZOS_PRIVATE_KEY \notin {<<>>, <<"">>}

\* C36: startup is ordered and all-or-nothing. A tool is registered and the
\* transport connected only when TEZOS_NETWORK names mainnet, ghostnet or
\* shadownet (shadownet when unset) and TEZOS_PRIVATE_KEY is present and
\* loaded as signer; when the network or the key check fails, startup ends
\* in the fatal state with no tool registered; a started server has the seven
\* documented tools registered, each once, and the transport connected after
\* them.
C36_StartupAllOrNothing ==
  /\ (server.registered # <<>> \/ server.connected) =>
       /\ NetworkNamed \in SupportedNetworks
       /\ server.networkName = <<NetworkNamed>>
       /\ KeyPresent /\ server.signer
  /\ (server.pc # "start" /\ (NetworkNamed \notin SupportedNetworks \/ ~KeyPresent)) =>
       /\ server.pc = "exited" /\ server.fatal # <<>>
       /\ server.registered = <<>> /\ ~server.connected
  /\ server.connected => server.registered = ToolNames
  /\ server.pc = "started" =>
       /\ server.connected
       /\ Len(server.registered) = 7
       /\ \A i, j \in 1..7 : i # j => server.registered[i] # server.registered[j]

====
